---------------------------- MODULE Spec2Model ----------------------------
(***************************************************************************)
(* Model of the text-to-cad backend: the rule-based instruction parser     *)
(* (main.py), the optional AI parser with its fallback (llm.py, main.py)   *)
(* and the asyncio job tracker (jobs.py).                                  *)
(*                                                                         *)
(* Python values: None is the empty tuple, any other optional value v is   *)
(* the one-element tuple <<v>>.  A float is the record [n, d] standing for *)
(* n / 10^d with no trailing zero in the fraction (5.0 is [n=5, d=0]).     *)
(* A str is a TLA+ string, a dict is a function from its keys.             *)
(***************************************************************************)
EXTENDS Integers, Sequences, FiniteSets, TLC

None == <<>>

Some(v) == <<v>>

(***************************************************************************)
(* Strings                                                                 *)
(***************************************************************************)
Char(s, i) == IF i >= 1 /\ i <= Len(s) THEN SubSeq(s, i, i) ELSE ""

IsDigit(c) == c \in {"0", "1", "2", "3", "4", "5", "6", "7", "8", "9"}

IsSpace(c) == c \in {" ", "\t", "\n"}

DigitVal(c) ==
  CASE c = "0" -> 0 [] c = "1" -> 1 [] c = "2" -> 2 [] c = "3" -> 3
    [] c = "4" -> 4 [] c = "5" -> 5 [] c = "6" -> 6 [] c = "7" -> 7
    [] c = "8" -> 8 [] c = "9" -> 9

\* str.lower() on one character (the letters the instructions use).
LowerChar(c) ==
  CASE c = "A" -> "a" [] c = "B" -> "b" [] c = "C" -> "c" [] c = "D" -> "d"
    [] c = "E" -> "e" [] c = "F" -> "f" [] c = "G" -> "g" [] c = "H" -> "h"
    [] c = "I" -> "i" [] c = "J" -> "j" [] c = "K" -> "k" [] c = "L" -> "l"
    [] c = "M" -> "m" [] c = "N" -> "n" [] c = "O" -> "o" [] c = "P" -> "p"
    [] c = "Q" -> "q" [] c = "R" -> "r" [] c = "S" -> "s" [] c = "T" -> "t"
    [] c = "U" -> "u" [] c = "V" -> "v" [] c = "W" -> "w" [] c = "X" -> "x"
    [] c = "Y" -> "y" [] c = "Z" -> "z" [] OTHER -> c

\* The first n characters of s in lower case
RECURSIVE LowerTo(_, _)
LowerTo(s, n) == IF n = 0 THEN "" ELSE LowerTo(s, n - 1) \o LowerChar(Char(s, n))

Lower(s) == LowerTo(s, Len(s))

\* The index of the first character at or after i that is not white space
RECURSIVE SkipSpaces(_, _)
SkipSpaces(s, i) == IF IsSpace(Char(s, i)) THEN SkipSpaces(s, i + 1) ELSE i

\* The index of the last character at or before i that is not white space
RECURSIVE SkipSpacesBack(_, _)
SkipSpacesBack(s, i) == IF IsSpace(Char(s, i)) THEN SkipSpacesBack(s, i - 1) ELSE i

Strip(s) ==
  LET a == SkipSpaces(s, 1)
      b == SkipSpacesBack(s, Len(s))
  IN IF a > b THEN "" ELSE SubSeq(s, a, b)

\* s[i:].startswith(kw)
StartsWithAt(s, kw, i) ==
  /\ i + Len(kw) - 1 <= Len(s)
  /\ SubSeq(s, i, i + Len(kw) - 1) = kw

\* kw in s
Contains(s, kw) == \E i \in 1..Len(s) : StartsWithAt(s, kw, i)

\* any(word in s for word in words)
AnyIn(s, words) == \E k \in 1..Len(words) : Contains(s, words[k])

\* Regular expressions of parse_cad_instruction.  Every pattern has one of two
\* forms, kw_num: a keyword alternation, optional spaces, an optional "of" with
\* optional spaces, then the captured number; num_kw: the captured number,
\* optional spaces, an optional unit (mm, millimeter, millimeters), optional
\* spaces, then a keyword alternation.  The number is a decimal ("float": digits,
\* optional point, digits) or a digit run ("int").  re.search returns the match
\* at the leftmost start position and group 1 is greedy.
RECURSIVE DigitRunEnd(_, _)
DigitRunEnd(s, i) == IF IsDigit(Char(s, i)) THEN DigitRunEnd(s, i + 1) ELSE i

\* End (exclusive) of the greedy match of NUM at i, 0 when NUM does not match.
NumEnd(s, i, num) ==
  LET a == DigitRunEnd(s, i) IN
  IF num = "float" /\ Char(s, a) = "." /\ IsDigit(Char(s, a + 1))
    THEN DigitRunEnd(s, a + 1)
    ELSE IF a > i THEN a ELSE 0

units == <<"mm", "millimeter", "millimeters", "">>

\* Does some alternative of kws start at i.
KwAt(s, kws, i) == \E k \in 1..Len(kws) : StartsWithAt(s, kws[k], i)

\* The capture <<start, end>> of a match that starts at i, or <<>>.
MatchAt(pat, s, i) ==
  IF pat.form = "kw_num" THEN
    LET ks == {k \in 1..Len(pat.kws) :
                 /\ StartsWithAt(s, pat.kws[k], i)
                 /\ LET p0 == SkipSpaces(s, i + Len(pat.kws[k]))
                        p1 == IF pat.of /\ StartsWithAt(s, "of", p0)
                                THEN SkipSpaces(s, p0 + 2) ELSE p0
                    IN NumEnd(s, p1, pat.num) # 0}
    IN IF ks = {} THEN <<>>
       ELSE LET k  == CHOOSE x \in ks : \A y \in ks : x <= y
                p0 == SkipSpaces(s, i + Len(pat.kws[k]))
                p1 == IF pat.of /\ StartsWithAt(s, "of", p0)
                        THEN SkipSpaces(s, p0 + 2) ELSE p0
            IN <<p1, NumEnd(s, p1, pat.num)>>
  ELSE
    LET e == NumEnd(s, i, pat.num) IN
    IF e = 0 THEN <<>>
    ELSE LET p0 == SkipSpaces(s, e)
             us == IF pat.unit THEN units ELSE <<"">>
         IN IF \E u \in 1..Len(us) :
                 /\ StartsWithAt(s, us[u], p0)
                 /\ KwAt(s, pat.kws, SkipSpaces(s, p0 + Len(us[u])))
              THEN <<i, e>> ELSE <<>>

\* re.search(pattern, s): group(1) of the leftmost match, or None.
ReSearch(pat, s) ==
  LET starts == {i \in 1..Len(s) : MatchAt(pat, s, i) # <<>>} IN
  IF starts = {} THEN None
  ELSE LET i == CHOOSE x \in starts : \A y \in starts : x <= y
           m == MatchAt(pat, s, i)
       IN Some(SubSeq(s, m[1], m[2] - 1))

\* int() of the first n characters of the digit string s
RECURSIVE DigitsToIntTo(_, _)
DigitsToIntTo(s, n) ==
  IF n = 0 THEN 0 ELSE 10 * DigitsToIntTo(s, n - 1) + DigitVal(Char(s, n))

DigitsToInt(s) == DigitsToIntTo(s, Len(s))

RECURSIVE Normalise(_)
Normalise(f) ==
  IF f.d > 0 /\ f.n % 10 = 0 THEN Normalise([n |-> f.n \div 10, d |-> f.d - 1]) ELSE f

\* float(s) for s matched by [0-9]*\.?[0-9]+
Float(s) ==
  LET dots == {i \in 1..Len(s) : Char(s, i) = "."} IN
  IF dots = {} THEN [n |-> DigitsToInt(s), d |-> 0]
  ELSE LET p == CHOOSE i \in dots : TRUE
       IN Normalise([n |-> DigitsToInt(SubSeq(s, 1, p - 1) \o SubSeq(s, p + 1, Len(s))),
                     d |-> Len(s) - p])

\* The loop "for pattern in patterns: match = re.search(..); if match: .. break".
RECURSIVE Cascade(_, _, _)
Cascade(pats, s, num) ==
  IF Len(pats) = 0 THEN None
  ELSE LET convert(g) ==
             IF g # None
               THEN Some(IF num = "int" THEN DigitsToInt(g[1]) ELSE Float(g[1]))
               ELSE Cascade(Tail(pats), s, num)
       IN CHOOSE r \in {convert(match) : match \in {ReSearch(Head(pats), s)}} : TRUE

height_patterns ==
  << [form |-> "kw_num", kws |-> <<"height", "tall", "length", "depth">>, of |-> TRUE, num |-> "float"],
     [form |-> "num_kw", kws |-> <<"height", "tall", "length", "depth">>, unit |-> TRUE, num |-> "float"],
     [form |-> "num_kw", kws |-> <<"high", "long", "deep">>, unit |-> TRUE, num |-> "float"] >>

diameter_patterns ==
  << [form |-> "kw_num", kws |-> <<"diameter", "dia", "width", "wide">>, of |-> TRUE, num |-> "float"],
     [form |-> "num_kw", kws |-> <<"diameter", "dia", "width", "wide">>, unit |-> TRUE, num |-> "float"],
     [form |-> "num_kw", kws |-> <<"across", "around">>, unit |-> TRUE, num |-> "float"] >>

count_patterns ==
  << [form |-> "kw_num", kws |-> <<"count", "number", "qty", "quantity">>, of |-> TRUE, num |-> "int"],
     [form |-> "num_kw", kws |-> <<"times", "copies", "instances">>, unit |-> FALSE, num |-> "int"],
     [form |-> "kw_num", kws |-> <<"make", "create">>, of |-> FALSE, num |-> "int"],
     [form |-> "num_kw",
      kws |-> <<"cylinder", "cylinders", "block", "blocks", "sphere", "spheres",
                "cone", "cones", "hole", "holes", "feature", "features">>,
      unit |-> FALSE, num |-> "int"] >>

angle_patterns ==
  << [form |-> "num_kw", kws |-> <<"degree", "degrees", "deg", "°">>, unit |-> FALSE, num |-> "float"],
     [form |-> "kw_num", kws |-> <<"angle", "rotation">>, of |-> TRUE, num |-> "float"] >>


(***************************************************************************)
(* parse_cad_instruction: the rule-based parser                            *)
(***************************************************************************)
\* action_of with the hole keywords tested before the extrude keywords
action_of_hole_first(instruction_lower) ==
  IF AnyIn(instruction_lower, <<"hole", "drill", "bore">>) THEN "create_hole"
  ELSE IF AnyIn(instruction_lower, <<"extrude", "extrusion">>) THEN "extrude"
  ELSE IF AnyIn(instruction_lower, <<"fillet", "round", "radius">>) THEN "fillet"
  ELSE IF AnyIn(instruction_lower, <<"pattern", "array", "repeat">>) THEN "pattern"
  ELSE "create_feature"

action_of(instruction_lower) ==
  IF AnyIn(instruction_lower, <<"extrude", "extrusion">>) THEN "extrude"
  ELSE IF AnyIn(instruction_lower, <<"hole", "drill", "bore">>) THEN "create_hole"
  ELSE IF AnyIn(instruction_lower, <<"fillet", "round", "radius">>) THEN "fillet"
  ELSE IF AnyIn(instruction_lower, <<"pattern", "array", "repeat">>) THEN "pattern"
  ELSE "create_feature"

\* shape_of with the shape looked for only when no action keyword was found
shape_of_unless_action(instruction_lower) ==
  IF action_of(instruction_lower) # "create_feature" THEN None
  ELSE IF AnyIn(instruction_lower, <<"cylinder", "cylindrical", "round">>) THEN Some("cylinder")
  ELSE IF AnyIn(instruction_lower, <<"block", "box", "cube", "rectangular">>) THEN Some("block")
  ELSE IF AnyIn(instruction_lower, <<"sphere", "ball", "spherical">>) THEN Some("sphere")
  ELSE None

\* shape_of with the fillet keyword radius among the cylinder keywords
shape_of_radius_is_cylinder(instruction_lower) ==
  IF AnyIn(instruction_lower, <<"cylinder", "cylindrical", "round", "radius">>) THEN Some("cylinder")
  ELSE IF AnyIn(instruction_lower, <<"block", "box", "cube", "rectangular">>) THEN Some("block")
  ELSE IF AnyIn(instruction_lower, <<"sphere", "ball", "spherical">>) THEN Some("sphere")
  ELSE None

shape_of(instruction_lower) ==
  IF AnyIn(instruction_lower, <<"cylinder", "cylindrical", "round">>) THEN Some("cylinder")
  ELSE IF AnyIn(instruction_lower, <<"block", "box", "cube", "rectangular">>) THEN Some("block")
  ELSE IF AnyIn(instruction_lower, <<"sphere", "ball", "spherical">>) THEN Some("sphere")
  ELSE None

\* pattern_info_of with the linear keywords tested before the circular ones
pattern_info_of_linear_first(instruction_lower, action, count) ==
  IF action = "pattern" THEN
    LET pattern_type ==
          IF AnyIn(instruction_lower, <<"line", "linear", "row", "straight">>) THEN Some("linear")
          ELSE IF AnyIn(instruction_lower, <<"circle", "circular", "round", "around">>) THEN Some("circular")
          ELSE None
        pattern_angle ==
          IF pattern_type = Some("circular")
            THEN Cascade(angle_patterns, instruction_lower, "float") ELSE None
    IN IF pattern_type # None
         THEN Some([type |-> pattern_type, count |-> count, angle_deg |-> pattern_angle])
         ELSE None
  ELSE None

pattern_info_of(instruction_lower, action, count) ==
  IF action = "pattern" THEN
    LET pattern_type ==
          IF AnyIn(instruction_lower, <<"circle", "circular", "round", "around">>) THEN Some("circular")
          ELSE IF AnyIn(instruction_lower, <<"line", "linear", "row", "straight">>) THEN Some("linear")
          ELSE None
        pattern_angle ==
          IF pattern_type = Some("circular")
            THEN Cascade(angle_patterns, instruction_lower, "float") ELSE None
    IN IF pattern_type # None
         THEN Some([type |-> pattern_type, count |-> count, angle_deg |-> pattern_angle])
         ELSE None
  ELSE None

\* The ParsedParameters object returned for an instruction.  (A value bound as
\* the element of a singleton set is computed once.)
parse_cad_instruction(instruction) ==
  LET extract(instruction_lower) ==
        LET action == action_of(instruction_lower)
            count  == Cascade(count_patterns, instruction_lower, "int")
        IN [action      |-> action,
            shape       |-> shape_of(instruction_lower),
            height_mm   |-> Cascade(height_patterns, instruction_lower, "float"),
            diameter_mm |-> Cascade(diameter_patterns, instruction_lower, "float"),
            count       |-> count,
            pattern     |-> pattern_info_of(instruction_lower, action, count)]
  IN CHOOSE r \in {extract(s) : s \in {Strip(Lower(instruction))}} : TRUE

(***************************************************************************)
(* parse_instruction_with_ai (llm.py).  A call either returns a value or   *)
(* raises: raised is "" for a return and the exception class otherwise.    *)
(***************************************************************************)
Return(v) == [raised |-> "", value |-> Some(v)]

Raise(cls) == [raised |-> cls, value |-> None]

\* Classes derived from Exception (LLMParseError is declared at llm.py:14).
ExceptionClasses == {"LLMParseError", "ValueError", "IndexError", "APIConnectionError",
                     "APITimeoutError", "APIStatusError"}

\* bool(s) of an optional str
Truthy(opt) == opt # None /\ opt[1] # ""

\* int(s) succeeds
IsIntString(s) == Len(s) > 0 /\ \A i \in 1..Len(s) : IsDigit(Char(s, i))

\* The parameter names of the schema in the system prompt.
SchemaKeys ==
  {"count", "diameter_mm", "height_mm", "width_mm", "length_mm", "depth_mm", "radius_mm",
   "center_x_mm", "center_y_mm", "center_z_mm", "axis", "use_top_face", "extrude_midplane",
   "angle_deg", "draft_angle_deg", "draft_outward", "flip_direction", "fillet_target",
   "chamfer_distance_mm", "chamfer_target", "shape", "pattern"}

\* Python None where the schema has a dict (JSON null for "parameters").  None
\* and the empty dict would both be the empty function, so this None is the
\* function with the one key NoneType.
NoneObject == [NoneType |-> TRUE]

\* hasattr(d, "get"): d is a dict and not None
HasGet(d) == "NoneType" \notin DOMAIN d

\* json.loads on the response texts of the model: the JSON texts the external
\* parser is taken to answer with and the Python value of each; any other text
\* is not JSON.  t is the JSON type, v the value.  The upper-case names stand
\* for the text of the JSON object given as their value.
JsonTexts ==
  [ x \in {"ALL", "FIVE", "ONE", "EMPTYPARAMS", "NULLPARAMS", "NOACTION", "NOPARAMS", "{}", "[]", "5", "null", "\"extrude\""} |->
    CASE x = "ALL" ->
           [t |-> "object",
            v |-> [action |-> "create_hole",
                   parameters |-> [k \in SchemaKeys |->
                                     IF k = "diameter_mm" THEN Some([n |-> 5, d |-> 0]) ELSE None]]]
      [] x = "FIVE" ->
           [t |-> "object",
            v |-> [action |-> "extrude",
                   parameters |-> [count |-> None, diameter_mm |-> Some([n |-> 10, d |-> 0]),
                                   height_mm |-> Some([n |-> 5, d |-> 0]),
                                   shape |-> Some("cylinder"), pattern |-> None]]]
      [] x = "ONE" ->
           [t |-> "object",
            v |-> [action |-> "create_hole",
                   parameters |-> [diameter_mm |-> Some([n |-> 5, d |-> 0])]]]
      [] x = "EMPTYPARAMS" ->
           [t |-> "object", v |-> [action |-> "teleport", parameters |-> <<>>]]
      [] x = "NULLPARAMS" ->
           [t |-> "object", v |-> [action |-> "create_hole", parameters |-> NoneObject]]
      [] x = "NOACTION" ->
           [t |-> "object", v |-> [parameters |-> [count |-> Some(4)]]]
      [] x = "NOPARAMS" ->
           [t |-> "object", v |-> [action |-> "extrude"]]
      [] x = "{}" -> [t |-> "object", v |-> <<>>]
      [] x = "[]" -> [t |-> "array", v |-> <<>>]
      [] x = "5" -> [t |-> "number", v |-> 5]
      [] x = "null" -> [t |-> "null", v |-> None]
      [] x = "\"extrude\"" -> [t |-> "string", v |-> "extrude"] ]

\* The Markdown code fence, three backquotes in the source; written with
\* tildes here because a TLA+ string cannot hold a backquote.
Fence == "~~~"

parse_instruction_with_ai(text, env, ai) ==
  IF env.OPENAI_TIMEOUT_S # None /\ ~IsIntString(env.OPENAI_TIMEOUT_S[1]) THEN Raise("ValueError")
  ELSE IF ~Truthy(env.OPENAI_API_KEY) THEN Raise("LLMParseError")
  ELSE IF ai.call # "ok" THEN Raise("LLMParseError")
  ELSE IF ~Truthy(ai.content) THEN Raise("LLMParseError")
  ELSE
    LET c0 == Strip(ai.content[1])
        c1 == IF StartsWithAt(c0, Fence \o "json", 1) THEN SubSeq(c0, 8, Len(c0)) ELSE c0
        c2 == IF Len(c1) >= 3 /\ StartsWithAt(c1, Fence, Len(c1) - 2)
                THEN SubSeq(c1, 1, Len(c1) - 3) ELSE c1
        content == Strip(c2)
    IN IF content \notin DOMAIN JsonTexts THEN Raise("LLMParseError")
       ELSE LET parsed_command == JsonTexts[content] IN
            IF parsed_command.t # "object" THEN Raise("LLMParseError")
            ELSE IF "action" \notin DOMAIN parsed_command.v THEN Raise("LLMParseError")
            ELSE IF "parameters" \notin DOMAIN parsed_command.v THEN Raise("LLMParseError")
            ELSE Return(parsed_command.v)

(***************************************************************************)
(* parse_instruction_internal (main.py)                                    *)
(***************************************************************************)
\* The normalized command built from the rule-based result.
rule_result(text) ==
  LET normalized(parsed_params) ==
        [action     |-> parsed_params.action,
         parameters |-> [count       |-> parsed_params.count,
                         diameter_mm |-> parsed_params.diameter_mm,
                         height_mm   |-> parsed_params.height_mm,
                         shape       |-> parsed_params.shape,
                         pattern     |-> parsed_params.pattern]]
  IN CHOOSE r \in {normalized(p) : p \in {parse_cad_instruction(text)}} : TRUE

\* parse_instruction_internal with the "except Exception" clause (main.py:457)
\* left out: only LLMParseError is caught.
parse_instruction_internal_no_catch_all(text, use_ai, env, ai) ==
  LET tried == use_ai /\ Truthy(env.OPENAI_API_KEY)
      r     == parse_instruction_with_ai(text, env, ai)
  IN IF tried /\ r.raised = ""
       THEN Return([result |-> r.value[1], source |-> "ai"])
     ELSE IF tried /\ r.raised # "LLMParseError"
       THEN Raise(r.raised)
     ELSE Return([result |-> rule_result(text), source |-> "rule"])

\* parse_instruction_internal with source = "ai" set before the call and the
\* fallback not setting it again (main.py:466 left out).
parse_instruction_internal_stale_source(text, use_ai, env, ai) ==
  LET tried == use_ai /\ Truthy(env.OPENAI_API_KEY)
      r     == parse_instruction_with_ai(text, env, ai)
  IN IF tried /\ r.raised = ""
       THEN Return([result |-> r.value[1], source |-> "ai"])
     ELSE IF tried /\ r.raised # "LLMParseError" /\ r.raised \notin ExceptionClasses
       THEN Raise(r.raised)
     ELSE Return([result |-> rule_result(text), source |-> IF tried THEN "ai" ELSE "rule"])

parse_instruction_internal(text, use_ai, env, ai) ==
  LET tried == use_ai /\ Truthy(env.OPENAI_API_KEY)
      r     == parse_instruction_with_ai(text, env, ai)
  IN IF tried /\ r.raised = ""
       THEN Return([result |-> r.value[1], source |-> "ai"])
     ELSE IF tried /\ r.raised # "LLMParseError" /\ r.raised \notin ExceptionClasses
       THEN Raise(r.raised)
     ELSE Return([result |-> rule_result(text), source |-> "rule"])

(***************************************************************************)
(* The job tracker (jobs.py).  Every coroutine runs on one asyncio event   *)
(* loop: a step of the model is what one callback of the loop does, from   *)
(* the statement pc points at up to the next statement that suspends the   *)
(* coroutine.  _run_job is interpreted statement by statement; a label     *)
(* L<n> is the statement at jobs.py line n (L88, L103, L116 and L129 are   *)
(* the exits of the four "async with" blocks).                             *)
(***************************************************************************)
MaxJobs == 2

JobIds == 1..MaxJobs

STATUS_QUEUED == "queued"

STATUS_RUNNING == "running"

STATUS_SUCCEEDED == "succeeded"

STATUS_FAILED == "failed"

PROGRESS_STEPS == 20

\* str(e) of the exceptions injected into the worker
ErrMsgs == {"boom"}

VARIABLES
  p_req,          \* the last call of parse_instruction_internal: its arguments and environment
  p_out,          \* what that call returned or raised
  JOBS,           \* job_id -> record; meta holds the identity of the dict object
  heap,           \* dict object -> its contents (the meta dicts)
  jobs_lock,      \* _jobs_lock: None when free, Some(job) when held by the worker of job
  pc,             \* per job id: "idle" (id unused), "done", or the next statement of its worker
  step,           \* per job: the loop variable of _run_job (-1 before the loop and once the worker returned)
  error_message,  \* per job: the local error_message of _run_job, None outside the handler
  clock,          \* per job: how many instants datetime.now() has returned for its record
  progress_log,   \* per job: the writes made to "progress", as <<statement, value>>
  committed,      \* per job: the record as start_job or the last completed "async with" block left it
  ret,            \* what the call made in the last step returned
  command,        \* the command a request handler holds: the dict with action and parameters
  plans,          \* the plans rendered from it so far, each with whether the model had been built
  solid,          \* what dispatch_build did for it: the builder called and its result
  environ,        \* os.environ of the server process
  store,          \* the rows of the commands table, oldest first
  served          \* the HTTP requests answered so far, each with its response

vars == <<p_req, p_out, JOBS, heap, jobs_lock, pc, step, error_message, clock,
          progress_log, committed, ret, command, plans, solid, environ, store, served>>

parse_vars == <<p_req, p_out>>

build_vars == <<command, plans, solid>>

api_vars == <<environ, store, served>>

job_vars == <<JOBS, heap, jobs_lock, pc, step, error_message, clock, progress_log, committed, ret>>

AcquireLabels == {"L84", "L99", "L111", "L124"}

\* The statements of the worker loop (jobs.py:94-108): the simulated work
LoopLabels == {"L94", "L99", "L100", "L101", "L102", "L103", "L107", "L108"}

\* Suspends with a clock read that is awaited: the coroutine is also
\* suspended between the two assignments of an update (jobs.py:101-102)
Suspends_inside_update(label) == label \in {"L108", "L101"}

\* Suspends with an await between the assignments of the final update: the
\* coroutine is also suspended once the status is succeeded (jobs.py:113-114)
Suspends_inside_final_update(label) == label \in {"L108", "L113"}

\* The statements at which the coroutine hands control back to the event loop.
\* Acquiring a free asyncio.Lock does not suspend; the only other await is the sleep.
Suspends(label) == label = "L108"

\* JOBS[job_id][field] = value
SetField(st, j, field, value) == [st EXCEPT !.JOBS[j][field] = value]

\* JOBS[job_id]["updated_at"] = datetime.now()
Touch(st, j) == [st EXCEPT !.JOBS[j].updated_at = st.clock + 1, !.clock = st.clock + 1]

\* Leaving an "async with _jobs_lock" block normally: the update is complete.
Release(st, j) ==
  [st EXCEPT !.lock = None,
             !.committed = IF j \in DOMAIN st.JOBS THEN Some(st.JOBS[j]) ELSE @]

Goto(st, label) == [st EXCEPT !.pc = label]

Min(a, b) == IF a <= b THEN a ELSE b

\* The statement l of _run_job(job_id) on the state st = [JOBS, lock, pc, step,
\* err, clock, log, committed] (pc, step, err, clock, log and committed are
\* those of this job).
ExecStmt(st, j, l) ==
  LET present == j \in DOMAIN st.JOBS
  IN
  CASE l = "L84"  -> Goto([st EXCEPT !.lock = Some(j)], "L85")
    [] l = "L85"  -> Goto(st, IF present THEN "L86" ELSE "L88")
    [] l = "L86"  -> Goto(SetField(st, j, "status", STATUS_RUNNING), "L87")
    [] l = "L87"  -> Goto(Touch(st, j), "L88")
    [] l = "L88"  -> Goto(Release(st, j), "L94")
    [] l = "L94"  -> IF st.step + 1 <= PROGRESS_STEPS
                       THEN Goto([st EXCEPT !.step = st.step + 1], "L99")
                       ELSE Goto(st, "L111")
    [] l = "L99"  -> Goto([st EXCEPT !.lock = Some(j)], "L100")
    [] l = "L100" -> Goto(st, IF present THEN "L101" ELSE "L103")
    [] l = "L101" -> LET current_progress == Min(st.step * (100 \div PROGRESS_STEPS), 100)
                     IN Goto([SetField(st, j, "progress", current_progress)
                                EXCEPT !.log = Append(st.log, <<"L101", current_progress>>)],
                             "L102")
    [] l = "L102" -> Goto(Touch(st, j), "L103")
    [] l = "L103" -> Goto(Release(st, j), "L107")
    [] l = "L107" -> Goto(st, IF st.step < PROGRESS_STEPS THEN "L108" ELSE "L94")
    [] l = "L108" -> Goto(st, "L94")
    [] l = "L111" -> Goto([st EXCEPT !.lock = Some(j)], "L112")
    [] l = "L112" -> Goto(st, IF present THEN "L113" ELSE "L116")
    [] l = "L113" -> Goto(SetField(st, j, "status", STATUS_SUCCEEDED), "L114")
    [] l = "L114" -> Goto([SetField(st, j, "progress", 100)
                             EXCEPT !.log = Append(st.log, <<"L114", 100>>)], "L115")
    [] l = "L115" -> Goto(Touch(st, j), "L116")
    [] l = "L116" -> Goto(Release(st, j), "L117")
    [] l = "L117" -> Goto(st, "done")
    [] l = "L124" -> Goto([st EXCEPT !.lock = Some(j)], "L125")
    [] l = "L125" -> Goto(st, IF present THEN "L126" ELSE "L129")
    [] l = "L126" -> Goto(SetField(st, j, "status", STATUS_FAILED), "L127")
    [] l = "L127" -> Goto(SetField(st, j, "error", st.err), "L128")
    [] l = "L128" -> Goto(Touch(st, j), "L129")
    [] l = "L129" -> Goto(Release(st, j), "done")

\* Exec with the assignment of STATUS_RUNNING (jobs.py:86) left out
Exec_no_running(st, j) ==
  IF st.pc = "L86" THEN Goto(st, "L87") ELSE ExecStmt(st, j, st.pc)

\* Exec with a handler that also resets the progress (jobs.py:126)
Exec_handler_resets_progress(st, j) ==
  IF st.pc = "L126"
    THEN Goto(SetField(SetField(st, j, "status", STATUS_FAILED), j, "progress", 0), "L127")
    ELSE ExecStmt(st, j, st.pc)

\* Exec with a handler that does not store the message (jobs.py:127)
Exec_handler_without_error(st, j) ==
  IF st.pc = "L127" THEN Goto(st, "L128") ELSE ExecStmt(st, j, st.pc)

\* Exec with the progress written without asking whether the record is there
\* (jobs.py:100)
Exec_without_membership_check(st, j) ==
  IF st.pc = "L100" THEN Goto(st, "L101") ELSE ExecStmt(st, j, st.pc)

\* The statement pc points at
Exec(st, j) == ExecStmt(st, j, st.pc)

\* The values of the loop variable at which an exception is injected: before
\* the loop, in its first and a middle iteration, and in and after its last.
FaultSteps == {-1, 0, PROGRESS_STEPS \div 2, PROGRESS_STEPS}

\* No run executes more statements than this up to its last loop statement
MaxRun == 13

NoFault == [n |-> 0, msg |-> ""]

\* The exceptions a run of a worker may meet: its n-th statement raises
Faults == {NoFault} \cup [n : 1..MaxRun, msg : ErrMsgs]

\* Throw with the lock taken by acquire() and never released on the way out
Throw_keeps_lock(st, j, msg) == [st EXCEPT !.err = Some(msg), !.pc = "L124"]

\* An exception with message msg leaves the try block: the "async with" block
\* it may be in releases the lock, and control enters the handler (L121-L124).
Throw(st, j, msg) ==
  [st EXCEPT !.lock = IF st.lock = Some(j) THEN None ELSE @,
             !.err = Some(msg),
             !.pc = "L124"]

\* The statements that subscript JOBS[job_id]: they raise KeyError when the
\* record is not there
SubscriptLabels == {"L86", "L87", "L101", "L102", "L113", "L114", "L115", "L126", "L127", "L128"}

\* KeyError at a statement of job j: inside the try block it is handled as any
\* exception, inside the handler it ends the task
KeyError(st, j) ==
  IF st.pc \in {"L126", "L127", "L128"}
    THEN [st EXCEPT !.lock = None, !.err = Some("KeyError"), !.pc = "done"]
    ELSE Throw(st, j, "KeyError")

\* Run the worker of job j from its pc until it suspends or returns.  The
\* fault.n-th statement from here raises an exception with message fault.msg
\* if it is a statement of the worker loop (fault.n = 0: no statement raises).
\* (The state after a statement is bound as the element of a singleton set, so
\* that it is computed once.)
RECURSIVE Run(_, _, _)
Run(st, j, fault) ==
  IF st.pc = "done" THEN st
  ELSE IF st.pc \in AcquireLabels /\ st.lock # None THEN st
  ELSE IF st.pc \in SubscriptLabels /\ j \notin DOMAIN st.JOBS
    THEN CHOOSE r \in {Run(next, j, NoFault) : next \in {KeyError(st, j)}} : TRUE
  ELSE IF fault.n = 1 /\ st.pc \in LoopLabels /\ st.step \in FaultSteps
    THEN CHOOSE r \in {Run(next, j, NoFault) : next \in {Throw(st, j, fault.msg)}} : TRUE
  ELSE IF Suspends(st.pc) THEN Exec(st, j)
  ELSE CHOOSE r \in {Run(next, j, IF fault.n > 0 THEN [n |-> fault.n - 1, msg |-> fault.msg]
                                                  ELSE fault) : next \in {Exec(st, j)}} : TRUE

\* datetime.isoformat(): the instant as a string
isoformat(t) == [iso |-> t]

\* The worker of job j is resumed by the event loop and runs to its next
\* suspension; a worker waiting for the held lock is not resumed.
RunWorkerWith(j, fault) ==
  /\ pc[j] \notin {"idle", "done"}
  /\ ~(pc[j] \in AcquireLabels /\ jobs_lock # None)
  /\ \E st \in {Run([JOBS |-> JOBS, lock |-> jobs_lock, pc |-> pc[j], step |-> step[j],
                       err |-> error_message[j], clock |-> clock[j],
                       log |-> progress_log[j], committed |-> committed[j]], j, fault)} :
        /\ JOBS' = st.JOBS
        /\ jobs_lock' = st.lock
        /\ pc' = [pc EXCEPT ![j] = st.pc]
        /\ step' = [step EXCEPT ![j] = IF st.pc = "done" THEN -1 ELSE st.step]
        /\ error_message' = [error_message EXCEPT ![j] = st.err]
        /\ clock' = [clock EXCEPT ![j] = st.clock]
        /\ progress_log' = [progress_log EXCEPT ![j] = st.log]
        /\ committed' = [committed EXCEPT ![j] = st.committed]
  /\ ret' = [op |-> "none"]
  /\ UNCHANGED <<heap, parse_vars, build_vars, api_vars>>

\* A run changes the loop variable at most once, from step to step + 1, so
\* a fault can strike in it only when one of the two is a step faults are
\* injected at.
FaultsNear(s) == IF {s, s + 1} \cap FaultSteps = {} THEN {NoFault} ELSE Faults

RunWorker(j) == \E fault \in FaultsNear(step[j]) : RunWorkerWith(j, fault)

\* asyncio.create_task(_run_job(job_id, meta)): the task is scheduled and
\* runs only once the caller has handed control back to the event loop.
create_task(j) == [pc EXCEPT ![j] = "L84"]

\* start_job with the record created in the running state (jobs.py:52)
start_job_running(job_id, meta) ==
  LET now == clock[job_id] + 1
      job_record == [id |-> job_id, status |-> STATUS_RUNNING, progress |-> 0, error |-> None,
                     created_at |-> now, updated_at |-> now, meta |-> job_id]
  IN /\ clock' = [clock EXCEPT ![job_id] = now]
     /\ heap' = [heap EXCEPT ![job_id] = meta]
     /\ JOBS' = [k \in DOMAIN JOBS \cup {job_id} |-> IF k = job_id THEN job_record ELSE JOBS[k]]
     /\ progress_log' = [progress_log EXCEPT ![job_id] = <<<<"L53", 0>>>>]
     /\ committed' = [committed EXCEPT ![job_id] = Some(job_record)]
     /\ pc' = create_task(job_id)

\* start_job(meta), with uuid4() returning the unused id job_id
start_job(job_id, meta) ==
  LET now == clock[job_id] + 1
      job_record == [id |-> job_id, status |-> STATUS_QUEUED, progress |-> 0, error |-> None,
                     created_at |-> now, updated_at |-> now, meta |-> job_id]
  IN /\ clock' = [clock EXCEPT ![job_id] = now]
     /\ heap' = [heap EXCEPT ![job_id] = meta]
     /\ JOBS' = [k \in DOMAIN JOBS \cup {job_id} |-> IF k = job_id THEN job_record ELSE JOBS[k]]
     /\ progress_log' = [progress_log EXCEPT ![job_id] = <<<<"L53", 0>>>>]
     /\ committed' = [committed EXCEPT ![job_id] = Some(job_record)]
     /\ pc' = create_task(job_id)

\* uuid4(): an id no job has had; ids are opaque, so the model hands them out
\* in increasing order.
uuid4(job_id) == pc[job_id] = "idle" /\ \A k \in JobIds : k < job_id => pc[k] # "idle"

\* POST /jobs
create_job(command_id) ==
  \E job_id \in JobIds :
    /\ uuid4(job_id)
    /\ start_job(job_id, IF command_id # None /\ command_id[1] # 0
                           THEN [command_id |-> command_id[1]] ELSE <<>>)
    /\ ret' = [op |-> "create_job",
               value |-> [job_id |-> job_id, status |-> "queued", progress |-> 0]]
    /\ UNCHANGED <<jobs_lock, step, error_message, parse_vars, build_vars, api_vars>>

\* JOBS[job_id].copy() with the two datetimes converted
job_copy(job_id) ==
  [JOBS[job_id] EXCEPT !.created_at = isoformat(JOBS[job_id].created_at),
                       !.updated_at = isoformat(JOBS[job_id].updated_at)]

get_job(job_id) ==
  /\ ret' = [op |-> "get_job", job_id |-> job_id,
             value |-> IF job_id \notin DOMAIN JOBS THEN None ELSE Some(job_copy(job_id))]
  /\ UNCHANGED <<JOBS, heap, jobs_lock, pc, step, error_message, clock, progress_log,
                 committed, parse_vars, build_vars, api_vars>>

get_all_jobs ==
  /\ ret' = [op |-> "get_all_jobs", value |-> [job_id \in DOMAIN JOBS |-> job_copy(job_id)]]
  /\ UNCHANGED <<JOBS, heap, jobs_lock, pc, step, error_message, clock, progress_log,
                 committed, parse_vars, build_vars, api_vars>>

\* clear_jobs(): JOBS.clear().  What the model keeps about a record (the
\* instants read for it, the writes to its progress, its last complete
\* update) goes with the record; the workers are left as they are.
clear_jobs ==
  /\ JOBS' = << >>
  /\ clock' = [j \in JobIds |-> 0]
  /\ progress_log' = [j \in JobIds |-> << >>]
  /\ committed' = [j \in JobIds |-> None]
  /\ ret' = [op |-> "clear_jobs"]
  /\ UNCHANGED <<heap, jobs_lock, pc, step, error_message, parse_vars, build_vars, api_vars>>

\* The records a caller holds after get_job or get_all_jobs
Returned ==
  IF ret.op = "get_job" THEN (IF ret.value = None THEN {} ELSE {ret.value[1]})
  ELSE IF ret.op = "get_all_jobs" THEN {ret.value[k] : k \in DOMAIN ret.value}
  ELSE {}

\* The caller assigns to a key of a record it was handed: record["status"] = value
CallerSetsField ==
  /\ ret.op = "get_job" /\ ret.value # None
  /\ ret' = [op |-> "caller"]
  /\ UNCHANGED <<JOBS, heap, jobs_lock, pc, step, error_message, clock, progress_log,
                 committed, parse_vars, build_vars, api_vars>>

\* The caller changes the meta dict of a record it was handed:
\* record["meta"].clear() or record["meta"]["command_id"] = 7
CallerSetsMeta ==
  /\ \E r \in Returned :
       heap' = [heap EXCEPT ![r.meta] = IF heap[r.meta] = <<>> THEN [command_id |-> 7] ELSE <<>>]
  /\ ret' = [op |-> "caller"]
  /\ UNCHANGED <<JOBS, jobs_lock, pc, step, error_message, clock, progress_log,
                 committed, parse_vars, build_vars, api_vars>>

(***************************************************************************)
(* Inputs                                                                  *)
(***************************************************************************)
Instructions ==
  {"create a 5mm hole",
   "create 4 holes in a circular pattern",
   "create a cylinder 25mm diameter 15mm tall",
   "create a cylinder 15mm tall 25mm diameter",
   "make 3 cylinders in a line",
   "extrude a 5mm tall cylinder with 10mm diameter",
   "  Drill HOLE 12 mm deep ",
   "pattern of 6 around 90 degrees",
   "repeat 5 times in a row",
   "fillet radius 2.5",
   "make a mountain bike"}

\* The process environment read by os.getenv
Envs == [OPENAI_API_KEY : {None, Some(""), Some("sk-test")},
         OPENAI_TIMEOUT_S : {None, Some("20"), Some("soon")}]

\* The message contents the external parser may answer with
Contents ==
  {None, Some(""), Some("   "), Some("Sure, here is the JSON you asked for")}
    \cup {Some(x) : x \in DOMAIN JsonTexts}
    \cup {Some(Fence \o "json\n" \o "ALL" \o "\n" \o Fence),
          Some(" " \o Fence \o "json" \o "FIVE" \o Fence \o "\n"),
          Some("ONE" \o Fence),
          Some(Fence \o "\n" \o "ALL" \o "\n" \o Fence),
          Some(Fence \o "json\n" \o "[]" \o "\n" \o Fence)}

\* What client.chat.completions.create does: it raises, or returns a response
AiBehaviours ==
  {[call |-> c, content |-> None] :
     c \in {"network_error", "timeout", "api_error", "no_choices"}}
    \cup {[call |-> "ok", content |-> c] : c \in Contents}

CommandIds == {None, Some(0), Some(7)}

(***************************************************************************)
(* Specifications                                                          *)
(***************************************************************************)
\* No handler holds a command
InitBuild ==
  /\ command = None
  /\ plans = <<>>
  /\ solid = None

\* The server has answered no request and the commands table is empty
InitApi ==
  /\ environ = [OPENAI_API_KEY |-> None, OPENAI_TIMEOUT_S |-> None]
  /\ store = <<>>
  /\ served = <<>>

InitJobs ==
  /\ JOBS = <<>>
  /\ heap = [j \in JobIds |-> <<>>]
  /\ jobs_lock = None
  /\ pc = [j \in JobIds |-> "idle"]
  /\ step = [j \in JobIds |-> -1]
  /\ error_message = [j \in JobIds |-> None]
  /\ clock = [j \in JobIds |-> 0]
  /\ progress_log = [j \in JobIds |-> <<>>]
  /\ committed = [j \in JobIds |-> None]
  /\ ret = [op |-> "none"]

\* No instruction is being parsed
Init ==
  /\ p_req = None
  /\ p_out = None
  /\ InitJobs
  /\ InitBuild
  /\ InitApi

\* A request handler is about to call parse_instruction_internal(text, use_ai)
InitParse ==
  /\ p_req \in {Some(r) : r \in [text : Instructions, use_ai : BOOLEAN,
                                 env : Envs, ai : AiBehaviours]}
  /\ p_out = None
  /\ InitJobs
  /\ InitBuild
  /\ InitApi

\* The call of parse_instruction_internal returns or raises
ParseInstruction ==
  /\ p_req # None /\ p_out = None
  /\ p_out' = Some(parse_instruction_internal(p_req[1].text, p_req[1].use_ai,
                                              p_req[1].env, p_req[1].ai))
  /\ UNCHANGED <<p_req, job_vars, build_vars, api_vars>>

NextParse == ParseInstruction

SpecParse == InitParse /\ [][NextParse]_vars

\* The worker ignores its meta argument: the specifications about the workers
\* start their jobs without a command id.
NextJobs ==
  \/ create_job(None)
  \/ \E j \in JobIds : RunWorker(j)
  \/ \E j \in JobIds : get_job(j)

SpecJobs == Init /\ [][NextJobs]_vars

NextWorkers ==
  \/ create_job(None)
  \/ \E j \in JobIds : RunWorker(j)

\* The event loop runs every callback that is ready: a worker that can be
\* resumed is resumed.
FairJobs == Init /\ [][NextWorkers]_vars /\ \A j \in JobIds : WF_vars(RunWorker(j))

NextClear ==
  \/ create_job(None)
  \/ \E j \in JobIds : RunWorker(j)
  \/ \E j \in JobIds : get_job(j)
  \/ clear_jobs

SpecClear == Init /\ [][NextClear]_vars

NextCallers ==
  \/ \E command_id \in CommandIds : create_job(command_id)
  \/ \E j \in JobIds : RunWorkerWith(j, NoFault)
  \/ \E j \in JobIds : get_job(j)
  \/ get_all_jobs
  \/ CallerSetsField
  \/ CallerSetsMeta

SpecCallers == Init /\ [][NextCallers]_vars

(***************************************************************************)
(* Properties of parse_instruction_internal (SpecParse)                    *)
(***************************************************************************)
\* The external parser was called for the request
AiTried == p_req[1].use_ai /\ Truthy(p_req[1].env.OPENAI_API_KEY)

\* What that call did
AiCall == parse_instruction_with_ai(p_req[1].text, p_req[1].env, p_req[1].ai)

Answered == p_req # None /\ p_out # None

\* C1: whenever the call of the external parser fails, in any of the ways it
\* can fail, parse_instruction_internal raises nothing and returns the command
\* the rule-based parser produces for the same text.
C1_FallbackOnAiFailure ==
  (Answered /\ AiTried /\ AiCall.raised # "")
    => /\ p_out[1].raised = ""
       /\ p_out[1].value[1].result = rule_result(p_req[1].text)

\* The external parser answered a JSON array inside a Markdown fence, for an
\* instruction the rule-based parser finds a diameter in, and a command came back.
C1_Witness ==
  /\ Answered /\ AiTried
  /\ p_req[1].ai.call = "ok"
  /\ p_req[1].ai.content = Some(Fence \o "json\n" \o "[]" \o "\n" \o Fence)
  /\ p_req[1].text = "extrude a 5mm tall cylinder with 10mm diameter"
  /\ p_out[1].raised = ""
  /\ p_out[1].value[1].result.parameters.diameter_mm = Some([n |-> 10, d |-> 0])

\* C2: source is "ai" exactly when use_ai was set, a credential was configured
\* and the external call returned; then the command is the one it returned.
\* Otherwise source is "rule" and the command is the rule-based one.
C2_SourceAccurate ==
  Answered =>
    /\ p_out[1].raised = ""
    /\ (p_out[1].value[1].source = "ai") <=> (AiTried /\ AiCall.raised = "")
    /\ (AiTried /\ AiCall.raised = "")
         => p_out[1].value[1].result = AiCall.value[1]
    /\ ~(AiTried /\ AiCall.raised = "")
         => /\ p_out[1].value[1].source = "rule"
            /\ p_out[1].value[1].result = rule_result(p_req[1].text)

\* The external parser answered an object with a single parameter and that
\* object came back tagged "ai".
C2_Witness ==
  /\ Answered /\ AiTried
  /\ p_req[1].ai = [call |-> "ok", content |-> Some("ONE")]
  /\ p_req[1].env.OPENAI_TIMEOUT_S = None
  /\ p_out[1].value[1].source = "ai"
  /\ p_out[1].value[1].result.action = "create_hole"

\* C10 as claimed: the parameters of every returned command have the keys the
\* rule-based path returns for the same text.
C10_SameKeys ==
  (Answered /\ p_out[1].raised = "")
    => DOMAIN p_out[1].value[1].result.parameters = DOMAIN rule_result(p_req[1].text).parameters

(***************************************************************************)
(* Properties of the job tracker                                           *)
(***************************************************************************)
Terminal == {STATUS_SUCCEEDED, STATUS_FAILED}

\* The values written to the progress of job j, in order
Written(j) == [i \in 1..Len(progress_log[j]) |-> progress_log[j][i][2]]

\* C3 (SpecJobs): while the worker of a job has raised no exception, the
\* status of the job only goes from queued to running and from running to
\* succeeded, a new job is queued, each value written to its progress is at
\* least the one written before, and a succeeded job has progress 100, the
\* last value written.
C3_NormalRun ==
  /\ [][\A j \in DOMAIN JOBS' :
          error_message'[j] = None =>
            IF j \in DOMAIN JOBS
              THEN \/ JOBS'[j].status = JOBS[j].status
                   \/ JOBS[j].status = STATUS_QUEUED /\ JOBS'[j].status = STATUS_RUNNING
                   \/ JOBS[j].status = STATUS_RUNNING /\ JOBS'[j].status = STATUS_SUCCEEDED
              ELSE JOBS'[j].status = STATUS_QUEUED]_vars
  /\ [](\A j \in DOMAIN JOBS :
          error_message[j] = None =>
            /\ \A i \in 1..(Len(Written(j)) - 1) : Written(j)[i] <= Written(j)[i + 1]
            /\ pc[j] = "done" =>
                 /\ JOBS[j].status = STATUS_SUCCEEDED
                 /\ JOBS[j].progress = 100
                 /\ Written(j)[Len(Written(j))] = 100)

\* A job ran to the end without an exception while another job is half-way.
C3_Witness ==
  \E j, k \in DOMAIN JOBS :
    /\ pc[j] = "done" /\ error_message[j] = None /\ JOBS[j].status = STATUS_SUCCEEDED
    /\ JOBS[k].status = STATUS_RUNNING /\ JOBS[k].progress = 50

\* C4 (SpecJobs): a job whose worker loop raised an exception is failed, its
\* error is the message of the exception, and its progress is the last value
\* written before the exception.
C4_FailedKeepsProgress ==
  \A j \in DOMAIN JOBS :
    error_message[j] # None =>
      /\ pc[j] = "done"
      /\ JOBS[j].status = STATUS_FAILED
      /\ JOBS[j].error # None
      /\ JOBS[j].error = error_message[j]
      /\ JOBS[j].progress = Written(j)[Len(Written(j))]

\* The exception struck after the progress reached 50 and the job is failed at 50.
C4_Witness ==
  \E j \in DOMAIN JOBS :
    /\ error_message[j] = Some("boom")
    /\ JOBS[j].status = STATUS_FAILED
    /\ JOBS[j].progress = 50

\* C5 (SpecJobs): no step changes the status, progress, error or updated_at
\* of a job that is succeeded or failed.
C5_TerminalIsFinal ==
  [][\A j \in DOMAIN JOBS :
       JOBS[j].status \in Terminal =>
         /\ j \in DOMAIN JOBS'
         /\ JOBS'[j].status = JOBS[j].status
         /\ JOBS'[j].progress = JOBS[j].progress
         /\ JOBS'[j].error = JOBS[j].error
         /\ JOBS'[j].updated_at = JOBS[j].updated_at]_vars

\* One job is succeeded, and the worker of another job, started later, has
\* run on and failed.
C5_Witness ==
  \E j, k \in DOMAIN JOBS :
    /\ JOBS[j].status = STATUS_SUCCEEDED /\ pc[j] = "done"
    /\ JOBS[k].status = STATUS_FAILED /\ JOBS[k].progress = 100

\* The worker of job j is at an "async with" and the lock is held
WaitsForLock(j) == pc[j] \in AcquireLabels /\ jobs_lock # None

\* C6 (FairJobs): no started job stays queued or running forever (it is
\* succeeded or failed again and again, that is from some point on, a
\* terminal status being final), and no worker waits for the lock forever.
C6_EveryJobEnds ==
  \A j \in JobIds :
    /\ []<>(pc[j] = "idle" \/ (j \in DOMAIN JOBS /\ JOBS[j].status \in Terminal))
    /\ []<>(~WaitsForLock(j))

\* Two workers are asleep in the loop at the same time, and the lock is free.
C6_Witness ==
  /\ jobs_lock = None
  /\ \E j, k \in JobIds :
       /\ j # k
       /\ pc[j] = "L94" /\ pc[k] = "L94"
       /\ JOBS[j].status = STATUS_RUNNING /\ JOBS[k].status = STATUS_RUNNING

\* C7 (SpecJobs): the record get_job returns is the copy of the record as the
\* last completed update (or start_job) left it.
C7_ReadsAreWhole ==
  (ret.op = "get_job" /\ ret.value # None) =>
    LET r == ret.value[1]
        c == committed[ret.job_id][1]
    IN /\ r.status = c.status
       /\ r.progress = c.progress
       /\ r.error = c.error
       /\ r.updated_at = isoformat(c.updated_at)

\* get_job read a running job between two progress updates.
C7_Witness ==
  /\ ret.op = "get_job" /\ ret.value # None
  /\ ret.value[1].status = STATUS_RUNNING
  /\ ret.value[1].progress = 45
  /\ pc[ret.job_id] = "L94"

\* The registry as its owner sees it: every record with the contents of its meta
RegistryView == [j \in DOMAIN JOBS |-> [JOBS[j] EXCEPT !.meta = heap[JOBS[j].meta]]]

\* C8 as claimed (SpecCallers): whatever a caller changes through a record it
\* was handed, the registry is unchanged.
C8_CallersCannotChangeRegistry ==
  [][ret'.op = "caller" => RegistryView' = RegistryView]_vars

\* C9 (SpecCallers): when POST /jobs answers, the registry holds the record of
\* the new job as queued with progress 0 and no error, which is what the
\* answer says and what get_job would return, and the worker of the job has
\* not executed a statement.
C9_FireAndForget ==
  ret.op = "create_job" =>
    LET job_id == ret.value.job_id IN
    /\ job_id \in DOMAIN JOBS
    /\ JOBS[job_id].status = STATUS_QUEUED
    /\ JOBS[job_id].progress = 0
    /\ JOBS[job_id].error = None
    /\ ret.value.status = job_copy(job_id).status
    /\ ret.value.progress = job_copy(job_id).progress
    /\ pc[job_id] = "L84"
    /\ committed[job_id] = Some(JOBS[job_id])

\* POST /jobs answered for a second job while the worker of the first is running.
C9_Witness ==
  /\ ret.op = "create_job"
  /\ ret.value.job_id = 2
  /\ JOBS[1].status = STATUS_RUNNING
  /\ heap[2] = [command_id |-> 7]

(***************************************************************************)
(* Properties of the returned command (SpecParse)                          *)
(***************************************************************************)
\* A command came back from the rule-based path for the instruction text
RuleAnswer(text) ==
  /\ Answered /\ p_req[1].text = text
  /\ p_out[1].raised = ""
  /\ p_out[1].value[1].source = "rule"

\* C11 as claimed: every command parse_instruction_internal returns, from
\* either path, has an action and that action is one of extrude, create_hole,
\* fillet, chamfer, pattern, create_feature.
C11_ActionInEnumeration ==
  (Answered /\ p_out[1].raised = "")
    => /\ "action" \in DOMAIN p_out[1].value[1].result
       /\ p_out[1].value[1].result.action
            \in {"extrude", "create_hole", "fillet", "chamfer", "pattern", "create_feature"}

\* C19 as claimed: on the rule path "create a 5mm hole" gives action
\* create_hole, diameter_mm 5.0, count null and pattern null.
C19_FiveMmHole ==
  RuleAnswer("create a 5mm hole")
    => /\ p_out[1].value[1].result.action = "create_hole"
       /\ p_out[1].value[1].result.parameters.diameter_mm = Some([n |-> 5, d |-> 0])
       /\ p_out[1].value[1].result.parameters.count = None
       /\ p_out[1].value[1].result.parameters.pattern = None

\* C20 as claimed: on the rule path "create 4 holes in a circular pattern"
\* gives the action of the classifier's priority rules (create_hole: a hole
\* keyword and no extrude keyword occur) and the pattern sub-record
\* {type: circular, count: 4, angle_deg: null}.
C20_FourHolesCircular ==
  RuleAnswer("create 4 holes in a circular pattern")
    => /\ p_out[1].value[1].result.action = "create_hole"
       /\ p_out[1].value[1].result.parameters.pattern
            = Some([type |-> Some("circular"), count |-> Some(4), angle_deg |-> None])

(***************************************************************************)
(* The rule-based classifier on texts made of keywords (SpecRules)         *)
(***************************************************************************)
\* The words the instructions are made of: every action keyword and every
\* shape keyword of parse_cad_instruction, some of them in capitals, words
\* that hold a keyword inside them, and words that hold none.
RuleWords ==
  {"extrude", "extrusion", "hole", "drill", "bore", "fillet", "round", "radius",
   "pattern", "array", "repeat", "cylinder", "cylindrical", "block", "box", "cube",
   "rectangular", "sphere", "ball", "spherical",
   "Extrude", "HOLES", "Box", "football", "boxes", "widget", "", " "}

\* One word, or two words with a space between them
RuleTexts == {a \o " " \o b : a \in RuleWords, b \in RuleWords}

\* A request handler is about to parse a text of RuleTexts with no credential
\* configured: whatever use_ai is, the rule-based path is taken.
InitRules ==
  /\ p_req \in {Some(r) : r \in [text : RuleTexts, use_ai : BOOLEAN,
                                 env : {[OPENAI_API_KEY |-> None, OPENAI_TIMEOUT_S |-> None]},
                                 ai : {[call |-> "network_error", content |-> None]}]}
  /\ p_out = None
  /\ InitJobs
  /\ InitBuild
  /\ InitApi

SpecRules == InitRules /\ [][NextParse]_vars

\* The keyword lists of the action cascade, in the order they are tested
action_keywords ==
  << [action |-> "extrude",     words |-> {"extrude", "extrusion"}],
     [action |-> "create_hole", words |-> {"hole", "drill", "bore"}],
     [action |-> "fillet",      words |-> {"fillet", "round", "radius"}],
     [action |-> "pattern",     words |-> {"pattern", "array", "repeat"}] >>

\* The keyword lists of the shape cascade, in the order they are tested
shape_keywords ==
  << [shape |-> "cylinder", words |-> {"cylinder", "cylindrical", "round"}],
     [shape |-> "block",    words |-> {"block", "box", "cube", "rectangular"}],
     [shape |-> "sphere",   words |-> {"sphere", "ball", "spherical"}] >>

\* Some word of words occurs in the normalized text
Occurs(text, words) == \E w \in words : Contains(Strip(Lower(text)), w)

\* C12 (SpecRules): the action is that of the first of the four keyword sets,
\* in the order extrude, create_hole, fillet, pattern, that has a keyword in
\* the normalized text, whatever keywords of later sets the text holds, and
\* create_feature when no set has one.
C12_ActionPriority ==
  (Answered /\ p_out[1].raised = "") =>
    LET text   == p_req[1].text
        action == p_out[1].value[1].result.action
    IN /\ \A k \in 1..Len(action_keywords) :
            (/\ Occurs(text, action_keywords[k].words)
             /\ \A h \in 1..(k - 1) : ~Occurs(text, action_keywords[h].words))
              => action = action_keywords[k].action
       /\ (\A k \in 1..Len(action_keywords) : ~Occurs(text, action_keywords[k].words))
            => action = "create_feature"

\* A text with a hole keyword before an extrude keyword was classified extrude
C12_Witness ==
  /\ Answered
  /\ p_req[1].text = "drill extrusion"
  /\ p_out[1].value[1].result.action = "extrude"

\* C13 (SpecRules): the shape is that of the first of the three keyword sets,
\* in the order cylinder, block, sphere, that has a keyword in the normalized
\* text, and null when no set has one; the action chosen plays no part.
C13_ShapePriority ==
  (Answered /\ p_out[1].raised = "") =>
    LET text  == p_req[1].text
        shape == p_out[1].value[1].result.parameters.shape
    IN /\ \A k \in 1..Len(shape_keywords) :
            (/\ Occurs(text, shape_keywords[k].words)
             /\ \A h \in 1..(k - 1) : ~Occurs(text, shape_keywords[h].words))
              => shape = Some(shape_keywords[k].shape)
       /\ (\A k \in 1..Len(shape_keywords) : ~Occurs(text, shape_keywords[k].words))
            => shape = None

\* A text with a sphere keyword before a cylinder keyword got the shape
\* cylinder, and the action fillet
C13_Witness ==
  /\ Answered
  /\ p_req[1].text = "ball round"
  /\ p_out[1].value[1].result.parameters.shape = Some("cylinder")
  /\ p_out[1].value[1].result.action = "fillet"

(***************************************************************************)
(* The geometry builders (geometry/model_builder.py).  The parameters of a *)
(* command are a dict from names to optional values: a dimension is a      *)
(* float, count an int, shape a str, pattern a dict.  A builder returns    *)
(* the solid it asked CadQuery for, described by the values passed to      *)
(* CadQuery; the positions of the holes, computed with CadQuery vectors,   *)
(* are left out.  A call returns [params, raised, value]: the params dict  *)
(* as the call left it, the exception class ("" for none) and the result.  *)
(***************************************************************************)
\* dict.get(key)
Get(dict, key) == IF key \in DOMAIN dict THEN dict[key] ELSE None

\* dict.get(key, default)
GetOr(dict, key, default) == IF key \in DOMAIN dict THEN dict[key] ELSE default

\* bool(x) of an optional float
TruthyFloat(opt) == opt # None /\ opt[1].n # 0

\* bool(x) of an optional int
TruthyInt(opt) == opt # None /\ opt[1] # 0

\* a or b, of optional floats
OrFloat(a, b) == IF TruthyFloat(a) THEN a ELSE b

RECURSIVE Pow10(_)
Pow10(d) == IF d = 0 THEN 1 ELSE 10 * Pow10(d - 1)

\* a * b of floats
Times(a, b) == Normalise([n |-> a.n * b.n, d |-> a.d + b.d])

\* max(a, b) of ints
Max(a, b) == IF a >= b THEN a ELSE b

\* The float written n.0
F(n) == [n |-> n, d |-> 0]

\* range(n) as the sequence of its values
Range(n) == [i \in 1..Max(n, 0) |-> i - 1]

\* A call that returns value and leaves params as it is
Built(params, value) == [params |-> params, raised |-> "", value |-> Some(value)]

\* A call that raises cls
Failed(params, cls) == [params |-> params, raised |-> cls, value |-> None]

\* build_plate_with_holes with the defaults it settles on for the hole count
\* and the hole diameter written back into params
build_plate_with_holes_stores_defaults(params) ==
  LET hole_radius   == Get(params, "radius_mm")
      hole_diameter == OrFloat(OrFloat(Get(params, "diameter_mm"),
                                       IF TruthyFloat(hole_radius)
                                         THEN Some(Times(hole_radius[1], F(2))) ELSE None),
                               Some(F(5)))
      hole_count    == GetOr(params, "count", Some(4))
      pattern       == Get(params, "pattern")
      pattern_info  == IF pattern = None THEN <<>> ELSE pattern[1]
      pattern_type  == GetOr(pattern_info, "type", Some("circular"))
      pattern_count == GetOr(pattern_info, "count", hole_count)
      stored        == [k \in DOMAIN params \cup {"count", "diameter_mm"} |->
                          IF k = "count" THEN hole_count
                          ELSE IF k = "diameter_mm" THEN hole_diameter
                          ELSE params[k]]
  IN IF pattern_count = None THEN Failed(stored, "TypeError")
     ELSE Built(stored, [box |-> <<F(100), F(80), F(10)>>,
                         hole_count |-> hole_count, hole_diameter |-> hole_diameter[1],
                         pattern_type |-> IF pattern_type = Some("circular") THEN "circular" ELSE "linear",
                         holes |-> Range(pattern_count[1])])

build_plate_with_holes(params) ==
  LET plate_thickness == OrFloat(OrFloat(Get(params, "height_mm"), Get(params, "depth_mm")), Some(F(10)))
      hole_radius     == Get(params, "radius_mm")
      hole_diameter   == OrFloat(OrFloat(Get(params, "diameter_mm"),
                                         IF TruthyFloat(hole_radius)
                                           THEN Some(Times(hole_radius[1], F(2))) ELSE None),
                                 Some(F(5)))
      hole_count      == GetOr(params, "count", Some(4))
      plate_length    == OrFloat(OrFloat(OrFloat(Get(params, "length_mm"), Get(params, "width_mm")),
                                         Get(params, "diameter_mm")), Some(F(100)))
      plate_width     == OrFloat(OrFloat(OrFloat(Get(params, "width_mm"), Get(params, "length_mm")),
                                         Get(params, "diameter_mm")), Some(F(80)))
      pattern         == Get(params, "pattern")
      pattern_info    == IF pattern = None THEN <<>> ELSE pattern[1]
      pattern_type    == GetOr(pattern_info, "type", Some("circular"))
      pattern_count   == GetOr(pattern_info, "count", hole_count)
  IN \* max(1, pattern_count) and pattern_count - 1 raise TypeError on None
     IF pattern_count = None THEN Failed(params, "TypeError")
     ELSE Built(params, [box |-> <<plate_length[1], plate_width[1], plate_thickness[1]>>,
                         hole_count |-> hole_count, hole_diameter |-> hole_diameter[1],
                         pattern_type |-> IF pattern_type = Some("circular") THEN "circular" ELSE "linear",
                         holes |-> Range(pattern_count[1])])

build_block(params) ==
  LET width  == OrFloat(OrFloat(OrFloat(Get(params, "width_mm"), Get(params, "length_mm")),
                                Get(params, "diameter_mm")), Some(F(50)))
      length == OrFloat(OrFloat(OrFloat(Get(params, "length_mm"), Get(params, "width_mm")),
                                Get(params, "diameter_mm")), Some(F(50)))
      height == OrFloat(OrFloat(Get(params, "height_mm"), Get(params, "depth_mm")), Some(F(10)))
  IN Built(params, [box |-> <<length[1], width[1], height[1]>>])

build_extruded_cylinder(params) ==
  LET radius   == Get(params, "radius_mm")
      diameter == OrFloat(OrFloat(Get(params, "diameter_mm"),
                                  IF TruthyFloat(radius) THEN Some(Times(radius[1], F(2))) ELSE None),
                          Some(F(20)))
      height   == GetOr(params, "height_mm", Some(F(30)))
  IN \* extrude(None): CadQuery raises on a distance that is not a number
     IF height = None THEN Failed(params, "Exception")
     ELSE Built(params, [circle |-> Times(diameter[1], [n |-> 5, d |-> 1]), extrude |-> height[1]])

\* The builder dispatch_build returned the result of
Dispatched(builder, call) ==
  [builder |-> builder, params |-> call.params, raised |-> call.raised, value |-> call.value]

\* dispatch_build with the shape-based branches tested before the branch of
\* the hole, pattern and feature actions
dispatch_build_shape_first(action, params) ==
  LET shape == IF Truthy(Get(params, "shape")) THEN Lower(Get(params, "shape")[1]) ELSE "" IN
  IF shape = "cylinder"
    THEN Dispatched("build_extruded_cylinder", build_extruded_cylinder(params))
  ELSE IF shape \in {"block", "cube", "base_plate"}
    THEN Dispatched("build_block", build_block(params))
  ELSE Dispatched("build_plate_with_holes", build_plate_with_holes(params))

dispatch_build(action, params) ==
  LET shape == IF Truthy(Get(params, "shape")) THEN Lower(Get(params, "shape")[1]) ELSE "" IN
  IF action = "extrude" /\ shape = "cylinder"
    THEN Dispatched("build_extruded_cylinder", build_extruded_cylinder(params))
  ELSE IF action = "extrude" /\ shape \in {"block", "cube", "base_plate"}
    THEN Dispatched("build_block", build_block(params))
  ELSE IF action \in {"create_hole", "pattern", "create_feature"} \/ Contains(Lower(action), "hole")
    THEN Dispatched("build_plate_with_holes", build_plate_with_holes(params))
  ELSE IF shape = "cylinder"
    THEN Dispatched("build_extruded_cylinder", build_extruded_cylinder(params))
  ELSE IF shape \in {"block", "cube", "base_plate"}
    THEN Dispatched("build_block", build_block(params))
  ELSE Dispatched("build_plate_with_holes", build_plate_with_holes(params))

(***************************************************************************)
(* generate_plan_from_parsed (main.py): the plan rendered from a command   *)
(***************************************************************************)
\* str(n) of an int n >= 0
RECURSIVE IntToStr(_)
IntToStr(n) ==
  IF n < 10 THEN SubSeq("0123456789", n + 1, n + 1)
  ELSE IntToStr(n \div 10) \o SubSeq("0123456789", (n % 10) + 1, (n % 10) + 1)

\* s with zeros put before it up to the length d
RECURSIVE ZeroPad(_, _)
ZeroPad(s, d) == IF Len(s) >= d THEN s ELSE ZeroPad("0" \o s, d)

\* str(f) of a float f >= 0, as an f-string renders it: 5.0, 2.5, 0.05
FloatToStr(f) ==
  IF f.d = 0 THEN IntToStr(f.n) \o ".0"
  ELSE IntToStr(f.n \div Pow10(f.d)) \o "." \o ZeroPad(IntToStr(f.n % Pow10(f.d)), f.d)

\* text when cond holds, nothing otherwise: "if cond: desc += text"
When(cond, text) == IF cond THEN text ELSE ""

\* bool(d) of an optional dict
TruthyDict(opt) == opt # None /\ DOMAIN opt[1] # {}

\* The list generate_plan_from_parsed returns for the dict parsed_result
plan_of(parsed_result) ==
  LET action      == IF "action" \in DOMAIN parsed_result THEN parsed_result.action ELSE "unknown"
      params      == IF "parameters" \in DOMAIN parsed_result THEN parsed_result.parameters ELSE <<>>
      shape       == Get(params, "shape")
      diameter_mm == Get(params, "diameter_mm")
      height_mm   == Get(params, "height_mm")
      count       == Get(params, "count")
      pattern     == Get(params, "pattern")
      has_type    == TruthyDict(pattern) /\ Truthy(Get(pattern[1], "type"))
      many        == TruthyInt(count) /\ count[1] > 1
  IN
  IF action = "extrude" THEN
    IF shape = Some("cylinder") THEN
      << "Extrude cylinder"
           \o When(TruthyFloat(diameter_mm), " Ø" \o FloatToStr(diameter_mm[1]) \o " mm")
           \o When(TruthyFloat(height_mm), " × " \o FloatToStr(height_mm[1]) \o " mm height") >>
    ELSE IF shape = Some("block") THEN
      << "Extrude rectangular block"
           \o When(TruthyFloat(diameter_mm), " " \o FloatToStr(diameter_mm[1]) \o " mm wide")
           \o When(TruthyFloat(height_mm), " × " \o FloatToStr(height_mm[1]) \o " mm height") >>
    ELSE
      << "Extrude feature"
           \o When(TruthyFloat(height_mm), " " \o FloatToStr(height_mm[1]) \o " mm height") >>
  ELSE IF action = "create_hole" THEN
    << "Create"
         \o (IF many THEN " " \o IntToStr(count[1]) \o " holes" ELSE " hole")
         \o When(TruthyFloat(diameter_mm), " Ø" \o FloatToStr(diameter_mm[1]) \o " mm") >>
      \o (IF has_type THEN
            LET pattern_type  == Get(pattern[1], "type")
                pattern_count == GetOr(pattern[1], "count", count)
                angle_deg     == Get(pattern[1], "angle_deg")
            IN IF pattern_type = Some("circular") THEN
                 << "Arrange in circular pattern"
                      \o When(TruthyInt(pattern_count), " (" \o IntToStr(pattern_count[1]) \o " instances)")
                      \o When(TruthyFloat(angle_deg), " at " \o FloatToStr(angle_deg[1]) \o "° spacing") >>
               ELSE IF pattern_type = Some("linear") THEN
                 << "Arrange in linear pattern"
                      \o When(TruthyInt(pattern_count), " (" \o IntToStr(pattern_count[1]) \o " instances)") >>
               ELSE << >>
          ELSE << >>)
  ELSE IF action = "pattern" THEN
    << "Create pattern"
         \o When(TruthyInt(count), " of " \o IntToStr(count[1]) \o " features")
         \o When(has_type, " in " \o Get(pattern[1], "type")[1] \o " arrangement") >>
  ELSE IF action = "fillet" THEN
    << "Apply fillet"
         \o When(TruthyFloat(diameter_mm),
                 " with " \o FloatToStr(Times(diameter_mm[1], [n |-> 5, d |-> 1])) \o " mm radius") >>
  ELSE IF action = "create_feature" THEN
    IF shape = Some("cylinder") THEN
      << "Create cylinder"
           \o When(TruthyFloat(diameter_mm), " Ø" \o FloatToStr(diameter_mm[1]) \o " mm")
           \o When(TruthyFloat(height_mm), " × " \o FloatToStr(height_mm[1]) \o " mm height") >>
    ELSE IF Truthy(shape) THEN
      << "Create " \o shape[1]
           \o When(TruthyFloat(diameter_mm), " " \o FloatToStr(diameter_mm[1]) \o " mm")
           \o When(TruthyFloat(height_mm), " × " \o FloatToStr(height_mm[1]) \o " mm") >>
    ELSE IF many THEN
      << "Create base plate"
           \o When(TruthyFloat(height_mm), " " \o FloatToStr(height_mm[1]) \o " mm thick"),
         "Pattern " \o IntToStr(count[1]) \o " holes"
           \o When(TruthyFloat(diameter_mm), " Ø" \o FloatToStr(diameter_mm[1]) \o " mm")
           \o When(has_type, " in " \o Get(pattern[1], "type")[1] \o " arrangement") >>
    ELSE << "Create CAD feature" >>
  ELSE << "Execute " \o action \o " operation" >>

\* generate_plan_from_parsed without the final else branch and without the
\* fallback line: an action outside the known ones gets no line
generate_plan_from_parsed_known_actions_only(parsed_result) ==
  [parsed_result |-> parsed_result, raised |-> "",
   plan |-> IF parsed_result.action \in {"extrude", "create_hole", "pattern", "fillet", "create_feature"}
              THEN plan_of(parsed_result) ELSE << >>]

\* generate_plan_from_parsed taking the pattern out of the parameters with
\* params.pop("pattern", None) where the code reads it with params.get
generate_plan_from_parsed_pops_pattern(parsed_result) ==
  [parsed_result |->
     [parsed_result EXCEPT !.parameters =
        [k \in DOMAIN parsed_result.parameters \ {"pattern"} |-> parsed_result.parameters[k]]],
   raised |-> "",
   plan |-> plan_of(parsed_result)]

\* generate_plan_from_parsed returning after the first plan.append
generate_plan_from_parsed_first_line_only(parsed_result) ==
  [parsed_result |-> parsed_result, raised |-> "",
   plan |-> << plan_of(parsed_result)[1] >>]

\* generate_plan_from_parsed(parsed_result): the dict as the call left it,
\* the exception class ("" for none) and the list returned; an empty list is
\* replaced by the fallback line.  params.get raises AttributeError when the
\* value of "parameters" is None.
generate_plan_from_parsed(parsed_result) ==
  IF "parameters" \in DOMAIN parsed_result /\ ~HasGet(parsed_result.parameters)
    THEN [parsed_result |-> parsed_result, raised |-> "AttributeError", plan |-> << >>]
    ELSE LET plan == plan_of(parsed_result) IN
         [parsed_result |-> parsed_result, raised |-> "",
          plan |-> IF plan = << >> THEN << "Process CAD instruction" >> ELSE plan]

(***************************************************************************)
(* Plan rendering and model building for a command in hand (SpecBuild)     *)
(***************************************************************************)
MaxPlans == 2

\* Marks a key that the dict does not have
Absent == <<"no", "key">>

\* The dict with the keys of fields that are not marked absent
Dict(fields) == [k \in {x \in DOMAIN fields : fields[x] # Absent} |-> fields[k]]

\* The actions of the commands: the six of the schema, two that are not in it
\* but name a hole, and one that names nothing known
BuildActions ==
  {"extrude", "create_hole", "fillet", "chamfer", "pattern", "create_feature",
   "Drill_Holes", "teleport"}

BuildShapes ==
  {None, Some("cylinder"), Some("block"), Some("cube"), Some("base_plate"),
   Some("sphere"), Some("Cylinder")}

BuildCounts == {Absent, None, Some(1), Some(4)}

BuildDiameters == {None, Some(F(6)), Some([n |-> 125, d |-> 1])}

BuildRadii == {Absent, Some([n |-> 25, d |-> 1])}

BuildHeights == {Absent, None, Some(F(15))}

BuildPatterns ==
  {None,
   Some(<<>>),
   Some([type |-> Some("circular"), count |-> Some(4), angle_deg |-> None]),
   Some([type |-> Some("linear"), count |-> Some(0), angle_deg |-> None]),
   Some([type |-> Some("circular"), count |-> None, angle_deg |-> Some(F(90))]),
   Some([type |-> Some("grid"), count |-> Some(3), angle_deg |-> None]),
   Some([type |-> None, count |-> Some(4), angle_deg |-> None])}

BuildWidths == {Absent, Some(F(40))}

\* The commands a parsing path may hand to a handler
Commands ==
  {[action |-> a,
    parameters |-> Dict([shape |-> s, count |-> c, diameter_mm |-> d, radius_mm |-> r,
                         height_mm |-> h, pattern |-> p, width_mm |-> w])] :
     a \in BuildActions, s \in BuildShapes, c \in BuildCounts, d \in BuildDiameters,
     r \in BuildRadii, h \in BuildHeights, p \in BuildPatterns, w \in BuildWidths}

\* A handler holds a command and has neither rendered a plan nor built a model
InitCommand ==
  /\ p_req = None
  /\ p_out = None
  /\ InitJobs
  /\ command \in {Some(c) : c \in Commands}
  /\ plans = <<>>
  /\ solid = None
  /\ InitApi

\* plan = generate_plan_from_parsed(command)
GeneratePlan ==
  /\ command # None /\ Len(plans) < MaxPlans
  /\ \E r \in {generate_plan_from_parsed(command[1])} :
       /\ command' = Some(r.parsed_result)
       /\ plans' = Append(plans, [plan |-> r.plan, built |-> solid # None])
  /\ UNCHANGED <<solid, parse_vars, job_vars, api_vars>>

\* solid = dispatch_build(action, parameters)
DispatchBuild ==
  /\ command # None /\ solid = None
  /\ \E r \in {dispatch_build(command[1].action, command[1].parameters)} :
       /\ command' = Some([command[1] EXCEPT !.parameters = r.params])
       /\ solid' = Some([builder |-> r.builder, raised |-> r.raised, value |-> r.value])
  /\ UNCHANGED <<plans, parse_vars, job_vars, api_vars>>

NextBuild == GeneratePlan \/ DispatchBuild

SpecBuild == InitCommand /\ [][NextBuild]_vars

(***************************************************************************)
(* Properties of dispatch_build and the builders (SpecBuild)               *)
(***************************************************************************)
\* The shape of the command in hand, "" when it has none
ShapeGiven ==
  IF Truthy(Get(command[1].parameters, "shape")) THEN Get(command[1].parameters, "shape")[1] ELSE ""

\* The builder the stated precedence selects for an action and a shape, where
\* plate tells whether the action is one that gives plate-with-holes whatever
\* the shape is
Precedence(action, shape, plate) ==
  IF action = "extrude" /\ shape = "cylinder" THEN "build_extruded_cylinder"
  ELSE IF action = "extrude" /\ shape \in {"block", "cube", "base_plate"} THEN "build_block"
  ELSE IF plate THEN "build_plate_with_holes"
  ELSE IF shape = "cylinder" THEN "build_extruded_cylinder"
  ELSE IF shape \in {"block", "cube", "base_plate"} THEN "build_block"
  ELSE "build_plate_with_holes"

C15_PlateDefaults ==
  (/\ solid # None
   /\ solid[1].builder = "build_plate_with_holes"
   /\ {"count", "diameter_mm"} \subseteq DOMAIN command[1].parameters
   /\ command[1].parameters.count = None
   /\ command[1].parameters.diameter_mm = None)
    => /\ solid[1].raised = ""
       /\ solid[1].value[1].hole_count = Some(4)
       /\ solid[1].value[1].hole_diameter
            = IF TruthyFloat(Get(command[1].parameters, "radius_mm"))
                THEN Times(Get(command[1].parameters, "radius_mm")[1], F(2))
                ELSE F(5)

\* C16 (SpecBuild): a call of dispatch_build leaves the command, its
\* parameters included, as it was, and a plan rendered after the call equals
\* every plan rendered before it.
C16_DispatchLeavesCommand ==
  /\ [][solid' # solid => command' = command]_vars
  /\ [](\A i, j \in 1..Len(plans) :
          (~plans[i].built /\ plans[j].built) => plans[i].plan = plans[j].plan)

\* The plate builder made its default of four holes for a command without a
\* count, and a plan was rendered before the call and another after it
C16_Witness ==
  /\ solid # None /\ command # None
  /\ solid[1].builder = "build_plate_with_holes" /\ solid[1].raised = ""
  /\ "count" \notin DOMAIN command[1].parameters
  /\ solid[1].value[1].hole_count = Some(4)
  /\ Len(plans) = 2 /\ ~plans[1].built /\ plans[2].built

\* C17 (SpecBuild): every plan generate_plan_from_parsed returns has at least
\* one line, whatever the action, known or not, the shape, the count, the
\* dimensions and the pattern of the command.
C17_PlanNeverEmpty == \A i \in 1..Len(plans) : Len(plans[i].plan) >= 1

\* The plan of a create_feature command with all five parameters null, and
\* the plan of a command with an action outside the known ones
C17_Witness ==
  /\ command # None /\ Len(plans) >= 1
  /\ \/ /\ command[1] = [action |-> "create_feature",
                         parameters |-> [count |-> None, diameter_mm |-> None, height_mm |-> None,
                                         shape |-> None, pattern |-> None]]
        /\ plans[1].plan = << "Create CAD feature" >>
     \/ /\ command[1].action = "teleport"
        /\ plans[1].plan = << "Execute teleport operation" >>

\* C18 (SpecBuild): a call of generate_plan_from_parsed changes nothing but
\* the list of plans rendered: the command and the result of the build are
\* as before, and the plan it returns is the one every earlier call returned
\* for this command.
C18_PlanIsPure ==
  [][plans' # plans =>
       /\ command' = command
       /\ solid' = solid
       /\ \A i \in 1..Len(plans) : plans'[Len(plans')].plan = plans[i].plan]_vars

\* Two plans were rendered one after the other for a command with a pattern
\* and both have the line of the pattern
C18_Witness ==
  /\ command # None /\ Len(plans) = 2
  /\ command[1].action = "create_hole"
  /\ TruthyDict(Get(command[1].parameters, "pattern"))
  /\ Len(plans[1].plan) = 2
  /\ plans[2].plan = plans[1].plan

\* C21 as claimed: on the rule path an instruction with "25mm diameter" and
\* "15mm tall" gives diameter_mm 25.0 and height_mm 15.0 whichever of the two
\* comes first in the sentence.
C21_DiameterAndHeight ==
  \A text \in {"create a cylinder 25mm diameter 15mm tall",
               "create a cylinder 15mm tall 25mm diameter"} :
    RuleAnswer(text)
      => /\ p_out[1].value[1].result.parameters.diameter_mm = Some([n |-> 25, d |-> 0])
         /\ p_out[1].value[1].result.parameters.height_mm = Some([n |-> 15, d |-> 0])

(***************************************************************************)
(* The HTTP layer (main.py): routing, validation of the request body and   *)
(* the handlers of POST /process_instruction and POST /dry_run.  A request *)
(* is answered in one step.  What a request did is the record              *)
(* [status_code, body, store, calls]: the response, the rows of the        *)
(* commands table as the request left them and the collaborators the       *)
(* handler called, in order.  json.dumps(parameters) is kept as the value  *)
(* it encodes and created_at is left out of the rows.                      *)
(***************************************************************************)
MaxRequests == 2

\* The routes registered with @app.get and @app.post
Routes ==
  {<<"GET", "/health">>, <<"GET", "/">>, <<"POST", "/process_instruction">>,
   <<"POST", "/dry_run">>, <<"GET", "/commands">>, <<"GET", "/config">>,
   <<"POST", "/generate_model">>, <<"POST", "/jobs">>, <<"GET", "/jobs/{job_id}">>}

Handled(status_code, body, rows, calls) ==
  [status_code |-> status_code, body |-> body, store |-> rows, calls |-> calls]

\* InstructionRequest.validate_instruction(v): the stripped text, or ValueError
validate_instruction(v) ==
  IF v = "" \/ Strip(v) = ""
    THEN [raised |-> "ValueError", message |-> "Instruction cannot be blank or empty", value |-> None]
  ELSE IF Len(Strip(v)) < 3
    THEN [raised |-> "ValueError", message |-> "Instruction must be at least 3 characters long",
          value |-> None]
  ELSE [raised |-> "", message |-> "", value |-> Some(Strip(v))]

\* InstructionResponse(schema_version="1.0", ...)
InstructionResponse(instruction, source, plan, parsed_parameters) ==
  [schema_version |-> "1.0", instruction |-> instruction, source |-> source,
   plan |-> plan, parsed_parameters |-> parsed_parameters]

\* process_instruction(request, db) on the table rows; parse_result is what
\* its call parse_instruction_internal(request.instruction, request.use_ai)
\* returns or raises and fault names the call on the session that raises (""
\* for none).  The detail of a 500 ends with the class of the exception where
\* the code has its message.
process_instruction(request, rows, parse_result, fault) ==
  LET failed(cls, table, calls) ==
        Handled(500, [detail |-> "Internal error processing instruction: " \o cls],
                table, calls \o << "db.rollback" >>)
      parsed ==
        LET parsed_result == parse_result.value[1].result
            source        == parse_result.value[1].source
            db_command    == [id |-> Len(rows) + 1,
                              prompt |-> request.instruction,
                              action |-> IF "action" \in DOMAIN parsed_result
                                           THEN parsed_result.action ELSE "unknown",
                              parameters |-> IF "parameters" \in DOMAIN parsed_result
                                               THEN parsed_result.parameters ELSE << >>]
            committed_rows == Append(rows, db_command)
            rendered(made) ==
              IF made.raised # ""
                THEN failed(made.raised, committed_rows,
                            << "parse_instruction_internal", "db.add", "db.commit", "db.refresh",
                               "generate_plan_from_parsed" >>)
                ELSE Handled(200,
                             InstructionResponse(request.instruction, source, made.plan,
                                                 made.parsed_result),
                             committed_rows,
                             << "parse_instruction_internal", "db.add", "db.commit", "db.refresh",
                                "generate_plan_from_parsed" >>)
        IN IF fault = "db.commit"
             THEN failed("OperationalError", rows,
                         << "parse_instruction_internal", "db.add", "db.commit" >>)
           ELSE IF fault = "db.refresh"
             THEN failed("OperationalError", committed_rows,
                         << "parse_instruction_internal", "db.add", "db.commit", "db.refresh" >>)
           ELSE CHOOSE r \in {rendered(made) : made \in {generate_plan_from_parsed(parsed_result)}} : TRUE
  IN IF parse_result.raised # ""
       THEN failed(parse_result.raised, rows, << "parse_instruction_internal" >>)
       ELSE parsed

\* dry_run_instruction with the body of process_instruction
dry_run_instruction_saves(request, rows, parse_result) ==
  process_instruction(request, rows, parse_result, "")

\* dry_run_instruction(request); rows is the commands table, which the handler
\* does not ask for, and parse_result what its call of
\* parse_instruction_internal returns or raises
dry_run_instruction(request, rows, parse_result) ==
  LET failed(cls, calls) ==
        Handled(500, [detail |-> "Internal error during dry run: " \o cls], rows, calls)
      rendered(made) ==
        IF made.raised # ""
          THEN failed(made.raised, << "parse_instruction_internal", "generate_plan_from_parsed" >>)
          ELSE Handled(200,
                       InstructionResponse(request.instruction, parse_result.value[1].source,
                                           made.plan, made.parsed_result),
                       rows,
                       << "parse_instruction_internal", "generate_plan_from_parsed" >>)
  IN IF parse_result.raised # ""
       THEN failed(parse_result.raised, << "parse_instruction_internal" >>)
       ELSE CHOOSE r \in {rendered(made) :
                            made \in {generate_plan_from_parsed(parse_result.value[1].result)}} : TRUE

\* What the application does with a request: 404 or 405 from the router, 422
\* from the validation of the body (pydantic 2 puts "Value error, " before the
\* message of the ValueError, pydantic 1 does not), or the handler's answer.
\* parse_result is read by the handlers only.
Serve(method, path, json, rows, parse_result, fault, pydantic) ==
  IF <<method, path>> \notin Routes THEN
    IF \E m \in {"GET", "POST"} : <<m, path>> \in Routes
      THEN Handled(405, [detail |-> "Method Not Allowed"], rows, << >>)
      ELSE Handled(404, [detail |-> "Not Found"], rows, << >>)
  ELSE
    LET routed(request) ==
          IF path = "/process_instruction"
            THEN process_instruction(request, rows, parse_result, fault)
            ELSE dry_run_instruction(request, rows, parse_result)
        validated(v) ==
          IF v.raised # ""
            THEN Handled(422,
                         [detail |-> << [type |-> "value_error",
                                         msg |-> IF pydantic = 1 THEN v.message
                                                 ELSE "Value error, " \o v.message] >>],
                         rows, << >>)
            ELSE CHOOSE r \in {routed(request) :
                                 request \in {[instruction |-> v.value[1],
                                               use_ai |-> json.use_ai]}} : TRUE
    IN CHOOSE r \in {validated(v) : v \in {validate_instruction(json.instruction)}} : TRUE

(***************************************************************************)
(* The server answering requests (SpecApi)                                 *)
(***************************************************************************)
ApiInstructions == {"", "   ", " ab ", "create a 5mm hole", "make a mountain bike"}

\* The bodies a client posts: an instruction with the flag, or for /plan the
\* identity of a plan with the answers to its questions
Bodies(path) ==
  [instruction : ApiInstructions, use_ai : BOOLEAN]
    \cup (IF path = "/plan"
            THEN {[state_id |-> "plan-1",
                   answers |-> [frame_size_mm |-> 450, wheel_diameter_mm |-> 650,
                                tire_width_mm |-> 55, handlebar_width_mm |-> 720]]}
            ELSE {})

ApiEnvs == {e \in Envs : e.OPENAI_TIMEOUT_S = None /\ e.OPENAI_API_KEY # Some("")}

\* The external parser is not reached, answers with a command of the schema,
\* or answers with null for the parameters
ApiAi ==
  {[call |-> "network_error", content |-> None],
   [call |-> "ok", content |-> Some("ALL")],
   [call |-> "ok", content |-> Some("NULLPARAMS")]}

\* The request reaches a handler
Accepted(path, json) ==
  /\ <<"POST", path>> \in Routes
  /\ "instruction" \in DOMAIN json
  /\ validate_instruction(json.instruction).raised = ""

\* The request makes the handler call the external parser
Consults(path, json) ==
  Accepted(path, json) /\ json.use_ai /\ Truthy(environ.OPENAI_API_KEY)

\* A client posts a body to path and is answered; the behaviour of the
\* external parser, of the database and the pydantic release are chosen where
\* the request gets to them.  The call of parse_instruction_internal a handler
\* makes is evaluated here, once for the request.
Post(path) ==
  /\ Len(served) < MaxRequests
  /\ \E json \in Bodies(path) :
     \E ai \in IF Consults(path, json) THEN ApiAi ELSE {[call |-> "network_error", content |-> None]} :
     \E fault \in IF Accepted(path, json) /\ path = "/process_instruction"
                    THEN {"", "db.commit", "db.refresh"} ELSE {""} :
     \E pydantic \in IF <<"POST", path>> \in Routes /\ ~Accepted(path, json) THEN {1, 2} ELSE {2} :
     \E parse_result \in IF Accepted(path, json)
                            THEN {parse_instruction_internal(Strip(json.instruction),
                                                             json.use_ai, environ, ai)}
                            ELSE {Raise("")} :
     \E r \in {Serve("POST", path, json, store, parse_result, fault, pydantic)} :
       /\ store' = r.store
       /\ served' = Append(served, [method |-> "POST", path |-> path, json |-> json, ai |-> ai,
                                    status_code |-> r.status_code, body |-> r.body,
                                    calls |-> r.calls])
  /\ UNCHANGED <<environ, parse_vars, job_vars, build_vars>>

PostProcessInstruction == Post("/process_instruction")

PostDryRun == Post("/dry_run")

PostPlan == Post("/plan")

InitServer ==
  /\ p_req = None
  /\ p_out = None
  /\ InitJobs
  /\ InitBuild
  /\ environ \in ApiEnvs
  /\ store = <<>>
  /\ served = <<>>

NextApi == PostProcessInstruction \/ PostDryRun \/ PostPlan

SpecApi == InitServer /\ [][NextApi]_vars

(***************************************************************************)
(* Properties of the HTTP layer (SpecApi)                                  *)
(***************************************************************************)
\* The request answered in this step
Answering == served'[Len(served')]

\* C22 as claimed: an instruction that is empty, only whitespace or shorter
\* than 3 characters once trimmed is answered with 422 and no call of the
\* parser, the plan renderer or the database, and for an empty instruction
\* posted to /dry_run the detail has an item whose msg is exactly
\* "Instruction cannot be empty."
C22_InvalidInstructionRejected ==
  \A i \in 1..Len(served) :
    (/\ served[i].path \in {"/process_instruction", "/dry_run"}
     /\ Len(Strip(served[i].json.instruction)) < 3)
      => /\ served[i].status_code = 422
         /\ served[i].calls = << >>
         /\ (served[i].path = "/dry_run" /\ served[i].json.instruction = "")
              => \E k \in 1..Len(served[i].body.detail) :
                   served[i].body.detail[k].msg = "Instruction cannot be empty."

\* The responses to requests i and j are 200 and agree on schema_version,
\* source, plan and parsed_parameters
SameAnswer(i, j) ==
  /\ served[i].status_code = 200
  /\ served[j].status_code = 200
  /\ served[i].body.schema_version = served[j].body.schema_version
  /\ served[i].body.source = served[j].body.source
  /\ served[i].body.plan = served[j].body.plan
  /\ served[i].body.parsed_parameters = served[j].body.parsed_parameters

\* C23 as claimed: POST /dry_run leaves the commands table as it was, and for
\* the same instruction and use_ai flag it returns the schema_version, source,
\* plan and parsed_parameters that POST /process_instruction returns.
C23_DryRunAsProcess ==
  /\ [][(Len(served') > Len(served) /\ Answering.path = "/dry_run") => store' = store]_vars
  /\ [](\A i, j \in 1..Len(served) :
          (/\ served[i].path = "/dry_run"
           /\ served[j].path = "/process_instruction"
           /\ served[j].status_code = 200
           /\ served[i].json = served[j].json)
            => SameAnswer(i, j))

\* C23 as amended: POST /dry_run leaves the commands table as it was, and for
\* the same instruction and use_ai flag, and the same answer of the external
\* parser where it is consulted, it returns the schema_version, source, plan
\* and parsed_parameters that POST /process_instruction returns.
C23_DryRunAsProcessAmended ==
  /\ [][(Len(served') > Len(served) /\ Answering.path = "/dry_run") => store' = store]_vars
  /\ [](\A i, j \in 1..Len(served) :
          (/\ served[i].path = "/dry_run"
           /\ served[j].path = "/process_instruction"
           /\ served[j].status_code = 200
           /\ served[i].json = served[j].json
           /\ served[i].ai = served[j].ai)
            => SameAnswer(i, j))

\* An instruction was saved by /process_instruction and then previewed by
\* /dry_run, both times parsed by the external parser with the same answer:
\* the table still has the one row and the two responses agree
C23_Witness ==
  /\ Len(served) = 2 /\ Len(store) = 1
  /\ served[1].path = "/process_instruction" /\ served[2].path = "/dry_run"
  /\ served[1].json = served[2].json /\ served[1].ai = served[2].ai
  /\ SameAnswer(1, 2)
  /\ served[2].body.source = "ai"
  /\ served[2].body.plan = << "Create hole Ø5.0 mm" >>

\* C24 as claimed: POST /plan with "make a mountain bike" is answered with
\* status awaiting_answers, a state_id, a plan and a list of questions, none of
\* them empty, and a later POST /plan with that state_id and the answers is
\* answered with status ready and a non-empty list of operations.
C24_PlanAsksThenReady ==
  \A i \in 1..Len(served) :
    (/\ served[i].path = "/plan"
     /\ "instruction" \in DOMAIN served[i].json
     /\ served[i].json.instruction = "make a mountain bike")
      => /\ served[i].status_code = 200
         /\ served[i].body.status = "awaiting_answers"
         /\ served[i].body.state_id # ""
         /\ served[i].body.plan # << >>
         /\ served[i].body.questions # << >>
         /\ \A j \in (i + 1)..Len(served) :
              (/\ served[j].path = "/plan"
               /\ "state_id" \in DOMAIN served[j].json
               /\ served[j].json.state_id = served[i].body.state_id)
                => /\ served[j].status_code = 200
                   /\ served[j].body.status = "ready"
                   /\ served[j].body.operations # << >>

\* C26 as claimed: a request to POST /process_instruction that is answered
\* with 500 leaves the commands table as it was before the request.
C26_ErrorLeavesStore ==
  [][(/\ Len(served') > Len(served)
      /\ Answering.path = "/process_instruction"
      /\ Answering.status_code = 500)
       => store' = store]_vars

(***************************************************************************)
(* Properties of the job records                                           *)
(***************************************************************************)
\* C25 (SpecJobs): the progress of every job is an integer from 0 to 100, a
\* succeeded job has progress 100 and no error, and a job has an error
\* exactly when it is failed.
C25_RecordInvariant ==
  \A j \in DOMAIN JOBS :
    /\ JOBS[j].progress \in 0..100
    /\ JOBS[j].status = STATUS_SUCCEEDED => (JOBS[j].progress = 100 /\ JOBS[j].error = None)
    /\ (JOBS[j].error # None) <=> (JOBS[j].status = STATUS_FAILED)

\* One job has succeeded and another has failed half-way with the message of
\* its exception
C25_Witness ==
  \E j, k \in DOMAIN JOBS :
    /\ JOBS[j].status = STATUS_SUCCEEDED /\ JOBS[j].progress = 100 /\ JOBS[j].error = None
    /\ JOBS[k].status = STATUS_FAILED /\ JOBS[k].error = Some("boom") /\ JOBS[k].progress = 50

(***************************************************************************)
(* Properties of clear_jobs                                                *)
(***************************************************************************)
\* The record of job j has been removed and its worker has been created
Cleared(j) == pc[j] # "idle" /\ j \notin DOMAIN JOBS

\* What no step does to a job whose record was removed: the record is not
\* there after the step, and a get_job for the id answers not-found
StaysCleared ==
  \A j \in JobIds :
    Cleared(j) =>
      /\ j \notin DOMAIN JOBS'
      /\ (ret'.op = "get_job" /\ ret'.job_id = j) => ret'.value = None

\* A worker is not ended by a missing record, and the worker of a job whose
\* record is there ends as it does without clear_jobs
WorkersUnaffected ==
  \A j \in JobIds :
    /\ error_message[j] # Some("KeyError")
    /\ pc[j] = "done" => jobs_lock # Some(j)
    /\ (pc[j] = "done" /\ j \in DOMAIN JOBS) =>
         IF error_message[j] = None
           THEN JOBS[j].status = STATUS_SUCCEEDED /\ JOBS[j].progress = 100 /\ JOBS[j].error = None
           ELSE JOBS[j].status = STATUS_FAILED /\ JOBS[j].error = error_message[j]

\* C30 (SpecClear): once clear_jobs has removed the record of a job whose
\* worker is still running, no step puts the record back and every get_job
\* for the id answers not-found; no worker fails on a missing record, and
\* the workers of the jobs whose records are there end as usual.
C30_ClearedStaysCleared == [][StaysCleared]_vars /\ []WorkersUnaffected

\* A worker has just run to its end without an error although the registry
\* was empty during the run: its record had been removed.
C30_Witness ==
  /\ ret.op = "none"
  /\ JOBS = << >>
  /\ \E j \in JobIds : pc[j] = "done" /\ error_message[j] = None
  /\ \A j \in JobIds : pc[j] \in {"idle", "done"}

(***************************************************************************)
(* The pattern extraction of the rule-based parser (SpecPatterns)          *)
(***************************************************************************)
\* The keywords of the two pattern types, in the order they are tested
circular_words == {"circle", "circular", "round", "around"}

linear_words == {"line", "linear", "row", "straight"}

\* Texts of three parts: a beginning with an action keyword or with none, a
\* middle with keywords of the pattern types or with none, and an end with
\* a count, an angle, both or neither.
PatternHeads == {"pattern", "repeat", "Array of", "drill a pattern", "make"}

PatternKinds == {"", "in a circle", "circular", "in a line", "linear", "in a row", "straight",
                 "circular row", "in a line on a circle", "around", "grid"}

PatternTails == {"", "6 copies", "45 degrees", "4 times angle of 30"}

PatternTexts == {h \o " " \o k \o " " \o t : h \in PatternHeads, k \in PatternKinds, t \in PatternTails}

\* A request handler is about to parse a text of PatternTexts with no
\* credential configured
InitPatterns ==
  /\ p_req \in {Some(r) : r \in [text : PatternTexts, use_ai : BOOLEAN,
                                 env : {[OPENAI_API_KEY |-> None, OPENAI_TIMEOUT_S |-> None]},
                                 ai : {[call |-> "network_error", content |-> None]}]}
  /\ p_out = None
  /\ InitJobs
  /\ InitBuild
  /\ InitApi

SpecPatterns == InitPatterns /\ [][NextParse]_vars

\* C27 (SpecPatterns): the rule-based parser produces a pattern sub-record
\* only when the action is pattern and a keyword of a pattern type occurs in
\* the text; the type of the sub-record is circular whenever a circular
\* keyword occurs, whether or not a linear keyword occurs as well; its
\* angle_deg is set only when its type is circular; and its count is the
\* count of the parameters.
C27_PatternSubRecord ==
  (Answered /\ p_out[1].raised = "") =>
    LET text       == p_req[1].text
        result     == p_out[1].value[1].result
        parameters == result.parameters
    IN parameters.pattern # None =>
         LET pattern == parameters.pattern[1] IN
         /\ result.action = "pattern"
         /\ Occurs(text, circular_words \cup linear_words)
         /\ Occurs(text, circular_words) => pattern.type = Some("circular")
         /\ pattern.angle_deg # None => pattern.type = Some("circular")
         /\ pattern.count = parameters.count

\* A text with a linear keyword before a circular one, a count and an angle
\* was parsed as a circular pattern of that count and angle
C27_Witness ==
  /\ Answered
  /\ p_req[1].text = "repeat in a line on a circle 4 times angle of 30"
  /\ p_out[1].value[1].result.action = "pattern"
  /\ p_out[1].value[1].result.parameters.pattern
       = Some([type |-> Some("circular"), count |-> Some(4), angle_deg |-> Some([n |-> 30, d |-> 0])])
  /\ p_out[1].value[1].result.parameters.count = Some(4)

(***************************************************************************)
(* Properties of the plan of a command with a pattern (SpecBuild)          *)
(***************************************************************************)
\* The type of the pattern sub-record of the command in hand, "" when the
\* command has no pattern or the pattern has no type
PatternTypeGiven ==
  LET pattern == Get(command[1].parameters, "pattern") IN
  IF TruthyDict(pattern) /\ Truthy(Get(pattern[1], "type")) THEN Get(pattern[1], "type")[1] ELSE ""

ActionWords == UNION {action_keywords[k].words : k \in 1..Len(action_keywords)}

ShapeWords == UNION {shape_keywords[k].words : k \in 1..Len(shape_keywords)}

\* The occurrences of keywords in the normalized text: the keyword and the
\* place it starts at
KeywordOccurrences(text) ==
  {o \in (ActionWords \cup ShapeWords) \X (1..Len(text)) :
     StartsWithAt(Strip(Lower(text)), o[1], o[2])}

\* C29 as claimed (SpecRules): no keyword is in an action list and in a shape
\* list, and an instruction with one occurrence of a keyword does not get
\* both an action from the action lists and a shape.
C29_KeywordsDisjoint ==
  /\ ActionWords \cap ShapeWords = {}
  /\ (Answered /\ p_out[1].raised = "" /\ Cardinality(KeywordOccurrences(p_req[1].text)) = 1) =>
       ~(/\ p_out[1].value[1].result.action # "create_feature"
         /\ p_out[1].value[1].result.parameters.shape # None)

\* C29 amended (SpecRules): round is the one keyword that is in an action
\* list and in a shape list: an instruction with one occurrence of a keyword
\* gets both an action from the action lists and a shape exactly when the
\* keyword is round, and then they are fillet and cylinder.
C29_KeywordsDisjointButRound ==
  /\ ActionWords \cap ShapeWords = {"round"}
  /\ (Answered /\ p_out[1].raised = "") =>
       \A occurrences \in {KeywordOccurrences(p_req[1].text)} : \A o \in occurrences :
         occurrences = {o} =>
           LET result == p_out[1].value[1].result IN
           IF o[1] = "round"
             THEN result.action = "fillet" /\ result.parameters.shape = Some("cylinder")
             ELSE ~(result.action # "create_feature" /\ result.parameters.shape # None)

\* The instruction "round" was classified fillet and got the shape cylinder
C29_Witness ==
  /\ Answered
  /\ p_req[1].text = "widget round"
  /\ p_out[1].value[1].result.action = "fillet"
  /\ p_out[1].value[1].result.parameters.shape = Some("cylinder")

=============================================================================
